---- MODULE Spec2Model ----
(***************************************************************************)
(* A model of the DMOD metric-evaluation core:                             *)
(*   - QueueCommunicator (metrics/communication.py) over the two           *)
(*     multiprocessing queues it owns,                                     *)
(*   - EventRouter / EventFunctionGroup (core/events),                     *)
(*   - the work distributors (metrics/distributor.py),                     *)
(*   - the expression engine (evaluations/utilities/expressions.py),       *)
(*   - FiniteGroup / GroupMember (evaluations/utilities/group.py),         *)
(*   - RelativeDuration (evaluations/utilities/duration.py),               *)
(*   - ClockworkDate (evaluations/utilities/date.py),                      *)
(*   - Signature compliance and the arguments EventRouter passes to its    *)
(*     handlers (core/events/base_function.py, core/events/router.py),     *)
(*   - Scores, scale_value, MetricResults and ScoringScheme                *)
(*     (metrics/scoring.py) with CommunicatorGroup.                        *)
(* Each component has its own next-state relation and specification over   *)
(* the shared variables; the other components' variables stay unchanged.   *)
(***************************************************************************)
EXTENDS Integers, Sequences, FiniteSets, TLC

VARIABLES
    \* ---- QueueCommunicator ----
    maximum_size,        \* self.__maximum_size
    verbosity,           \* self._verbosity
    information,         \* self.__information : [buffer, pipe]
    errors,              \* self.__errors      : [buffer, pipe]
    information_count,   \* self.__information_count
    error_count,         \* self.__error_count
    lock_owner,          \* who holds self.__lock between steps: "none" or "peer"
    peer_messages,       \* the local list `messages` of a second thread inside get_info
    handled,             \* every handler invocation so far, <<event, message>>
    written,             \* history: the messages info() enqueued, in order
    pure_info,           \* history: only info() writes have touched the communicator
    last_call,           \* the outcome of the latest communicator operation
    put_failures,        \* environment: how many of the next put() attempts raise
    ops,                 \* number of communicator operations so far
    \* ---- EventRouter (one event name, "evt") ----
    fail_on_missing_event,   \* self.__fail_on_missing_event
    registered,          \* "evt" in self.__events
    functions,           \* the handlers of the event's EventFunctionGroup, in order
    active_awaitables,   \* self.__active_awaitables
    stored,                \* history: every awaitable trigger() put into the list
    drain,               \* complete_active_tasks: where it is, what it awaits, what it awaited
    awaited,             \* the awaitables that have been awaited so far
    tasks,               \* the tasks asyncio.gather made for the running fire()
    fire_pc,             \* "idle", or "gathering" while fire() awaits its gather
    router_call,         \* the latest trigger()/fire() call and its outcome
    calls,               \* number of trigger()/fire() calls so far
    \* ---- work distributors ----
    work,                \* what each work item of the latest perform does when run
    work_state,          \* per work item: "pending", "scheduled", "done" or "failed"
    perform_call,        \* the latest perform()/perform_asynchronously() and its outcome
    performs,            \* number of perform calls so far
    \* ---- expression engine ----
    expr_data,           \* the tree handed to the engine, mutated in place
    expr_variables,      \* the variables the caller passes
    expr_call,           \* the latest call into the engine and its outcome
    expr_calls,          \* number of calls into the engine so far
    \* ---- FiniteGroup / GroupMember ----
    group_call,          \* the latest use of a group and its outcome
    \* ---- RelativeDuration ----
    duration,            \* the fields of the duration object, or NoDuration
    duration_call,       \* the latest call on the duration and its outcome
    duration_calls,      \* number of calls on the duration so far
    \* ---- ClockworkDate ----
    date_call,           \* the latest use of the date module and its outcome
    \* ---- Signature.complies_with ----
    signature_pair,      \* the handler signature and the expected signature looked at
    compliance,          \* whether complies_with was called, and what it returned
    \* ---- EventRouter with the signatures of its handlers (one event name, "evt") ----
    event_signature,     \* the signature of the event's EventFunctionGroup, once registered
    event_functions,     \* the functions of the group, in order, with their registration
    rejected,            \* history: the registrations register_handler turned down
    handler_call,        \* the latest call on this router and its outcome
    registrations,       \* number of register_handler calls so far
    triggers,            \* number of trigger()/fire() calls so far
    \* ---- Scores ----
    scores_made,         \* whether the Scores collection has been constructed
    scores_results,      \* self.__results: the scores, in key insertion order
    scores_call,         \* the latest construction of / insertion into the collection
    score_ops,           \* number of insertions so far
    \* ---- Metric.__call__ ----
    metric_input,        \* the frame and the thresholds handed to a metric
    metric_scores,       \* whether the metric was called, and the scores it returned
    \* ---- scale_value and MetricResults.scaled_value ----
    scale_input,         \* the metric and the raw values handed to scale_value
    scale_call,          \* whether scale_value was applied, and what it returned
    \* ---- ScoringScheme ----
    scheme,              \* the ScoringScheme: its metrics and how its communicators were given
    received,            \* per supplied communicator: the messages put on its info queue
    metric_tasks,        \* per metric: how far its run_legacy_metric call has got
    finished,            \* history: the metrics in the order their calls finished
    scheme_call,         \* the scoring run and its outcome
    \* ---- the retry loop of info()/error(), step by step ----
    attempt,             \* the running info()/error() call: its statement and its counters
    queue_size,          \* number of entries in the bounded queue
    queue_env,           \* the queue's capacity and which of its operations raise
    \* ---- EventRouter(allow_errors=...) ----
    fault_router,        \* the router made with allow_errors, and its EventFunctions
    fault_call,          \* the latest call on that router and what its handlers did
    \* ---- CommunicatorGroup.read_errors / read_info ----
    group_queues,        \* per communicator of the group: its error and information queues
    group_read,          \* the latest call on the group, the queues before it and its result
    posted,              \* number of messages posted so far
    \* ---- ResourceManager allocation strategies ----
    pool,                \* per resource node of the manager: its free CPUs and memory
    alloc_call           \* the latest call of an allocation strategy and what it did

commVars == <<maximum_size, verbosity, information, errors, information_count,
              error_count, lock_owner, peer_messages, handled, written,
              pure_info, last_call, put_failures, ops>>

routerVars == <<fail_on_missing_event, registered, functions, active_awaitables, stored, drain,
                awaited, tasks, fire_pc, router_call, calls>>

distVars == <<work, work_state, perform_call, performs>>

exprVars == <<expr_data, expr_variables, expr_call, expr_calls>>

groupVars == <<group_call>>

durationVars == <<duration, duration_call, duration_calls>>

dateVars == <<date_call>>

signatureVars == <<signature_pair, compliance>>

handlersVars == <<event_signature, event_functions, rejected, handler_call,
                  registrations, triggers>>

scoresVars == <<scores_made, scores_results, scores_call, score_ops>>

metricVars == <<metric_input, metric_scores>>

scaleVars == <<scale_input, scale_call>>

schemeVars == <<scheme, received, metric_tasks, finished, scheme_call>>

retryVars == <<attempt, queue_size, queue_env>>

faultsVars == <<fault_router, fault_call>>

readersVars == <<group_queues, group_read, posted>>

allocatorVars == <<pool, alloc_call>>

vars == <<commVars, routerVars, distVars, exprVars, groupVars,
          durationVars, dateVars, signatureVars, handlersVars,
          scoresVars, metricVars, scaleVars, schemeVars, retryVars,
          faultsVars, readersVars, allocatorVars>>

\* what the steps of one component leave alone
notComm == <<routerVars, distVars, exprVars, groupVars, durationVars,
             dateVars, signatureVars, handlersVars, scoresVars,
             metricVars, scaleVars, schemeVars, retryVars, faultsVars,
             readersVars, allocatorVars>>

notRouter == <<commVars, distVars, exprVars, groupVars, durationVars,
               dateVars, signatureVars, handlersVars, scoresVars,
               metricVars, scaleVars, schemeVars, retryVars, faultsVars,
               readersVars, allocatorVars>>

notDist == <<commVars, routerVars, exprVars, groupVars, durationVars,
             dateVars, signatureVars, handlersVars, scoresVars,
             metricVars, scaleVars, schemeVars, retryVars, faultsVars,
             readersVars, allocatorVars>>

notExpr == <<commVars, routerVars, distVars, groupVars, durationVars,
             dateVars, signatureVars, handlersVars, scoresVars,
             metricVars, scaleVars, schemeVars, retryVars, faultsVars,
             readersVars, allocatorVars>>

notGroup == <<commVars, routerVars, distVars, exprVars, durationVars,
              dateVars, signatureVars, handlersVars, scoresVars,
              metricVars, scaleVars, schemeVars, retryVars, faultsVars,
              readersVars, allocatorVars>>

notDuration == <<commVars, routerVars, distVars, exprVars, groupVars,
                 dateVars, signatureVars, handlersVars, scoresVars,
                 metricVars, scaleVars, schemeVars, retryVars, faultsVars,
                 readersVars, allocatorVars>>

notDate == <<commVars, routerVars, distVars, exprVars, groupVars,
             durationVars, signatureVars, handlersVars, scoresVars,
             metricVars, scaleVars, schemeVars, retryVars, faultsVars,
             readersVars, allocatorVars>>

notSignature == <<commVars, routerVars, distVars, exprVars, groupVars,
                  durationVars, dateVars, handlersVars, scoresVars, metricVars,
                  scaleVars, schemeVars, retryVars, faultsVars, readersVars,
                  allocatorVars>>

notHandlers == <<commVars, routerVars, distVars, exprVars, groupVars,
                 durationVars, dateVars, signatureVars, scoresVars,
                 metricVars, scaleVars, schemeVars, retryVars, faultsVars,
                 readersVars, allocatorVars>>

notScores == <<commVars, routerVars, distVars, exprVars, groupVars,
               durationVars, dateVars, signatureVars, handlersVars,
               metricVars, scaleVars, schemeVars, retryVars, faultsVars,
               readersVars, allocatorVars>>

notMetric == <<commVars, routerVars, distVars, exprVars, groupVars,
               durationVars, dateVars, signatureVars, handlersVars,
               scoresVars, scaleVars, schemeVars, retryVars, faultsVars,
               readersVars, allocatorVars>>

notScale == <<commVars, routerVars, distVars, exprVars, groupVars,
              durationVars, dateVars, signatureVars, handlersVars,
              scoresVars, metricVars, schemeVars, retryVars, faultsVars,
              readersVars, allocatorVars>>

notScheme == <<commVars, routerVars, distVars, exprVars, groupVars,
               durationVars, dateVars, signatureVars, handlersVars,
               scoresVars, metricVars, scaleVars, retryVars, faultsVars,
               readersVars, allocatorVars>>

notRetry == <<commVars, routerVars, distVars, exprVars, groupVars,
              durationVars, dateVars, signatureVars, handlersVars,
              scoresVars, metricVars, scaleVars, schemeVars, faultsVars,
              readersVars, allocatorVars>>

notFaults == <<commVars, routerVars, distVars, exprVars, groupVars,
               durationVars, dateVars, signatureVars, handlersVars,
               scoresVars, metricVars, scaleVars, schemeVars, retryVars,
               readersVars, allocatorVars>>

notReaders == <<commVars, routerVars, distVars, exprVars, groupVars,
                durationVars, dateVars, signatureVars, handlersVars,
                scoresVars, metricVars, scaleVars, schemeVars, retryVars,
                faultsVars, allocatorVars>>

notAllocator == <<commVars, routerVars, distVars, exprVars, groupVars,
                  durationVars, dateVars, signatureVars, handlersVars,
                  scoresVars, metricVars, scaleVars, schemeVars, retryVars,
                  faultsVars, readersVars>>

----------------------------------------------------------------------------
(* Bounds of the model *)

MaxSize == 2          \* largest maximum_size a communicator is created with
MaxOps == 4            \* communicator operations per behaviour
MaxHandlers == 2      \* handlers registered for the event
MaxCalls == 2         \* trigger()/fire() calls per behaviour
MaxArgs == 1          \* positional arguments given to trigger()/fire()
MaxItems == 3         \* work items handed to one perform
MaxPerforms == 2      \* perform calls per behaviour
MaxExprCalls == 2     \* calls into the expression engine per behaviour
MaxIterations == 2    \* largest `iterations` given to process_expressions
MaxGroupLen == 3      \* longest collection a FiniteGroup is made from
MaxGroupValue == 3    \* the values of a collection are 1..MaxGroupValue
MaxShift == 4         \* largest amount given to increment()/decrement()
MaxDurationCalls == 1 \* add_* calls on the duration per behaviour

----------------------------------------------------------------------------
(* Verbosity (enum.IntEnum with enum.auto(): QUIET = 1 .. ALL = 4) *)

QUIET == 1
NORMAL == 2
LOUD == 3
ALL == 4
None == 0             \* the `verbosity=None` argument: falsy, the gate is skipped

\* `if verbosity and self.verbosity < verbosity: return`
Gated(v) == v # None /\ verbosity < v

----------------------------------------------------------------------------
(* multiprocessing.Queue(maxsize): put() appends to a process-local buffer *)
(* after acquiring a bounded semaphore; a feeder thread moves buffered     *)
(* objects into the pipe; get() receives from the pipe and releases the    *)
(* semaphore; full() reads the semaphore; empty() polls the pipe.          *)

EmptyQueue == [buffer |-> <<>>, pipe |-> <<>>]

QContent(q) == q.pipe \o q.buffer

QSize(q) == Len(q.pipe) + Len(q.buffer)

\* maxsize <= 0 means SEM_VALUE_MAX: never full within the bounds
QFullOffByOne(q) == maximum_size > 0 /\ QSize(q) > maximum_size

QFull(q) == maximum_size > 0 /\ QSize(q) >= maximum_size

QEmpty(q) == q.pipe = <<>>

QPut(q, m) == [q EXCEPT !.buffer = Append(@, m)]

\* a blocking get() on a queue that holds something: it waits for the feeder
\* if the pipe is still empty, and receives the oldest object
QHead(q) == Head(QContent(q))

QAfterGet(q) ==
    IF q.pipe # <<>> THEN [q EXCEPT !.pipe = Tail(@)]
    ELSE [q EXCEPT !.buffer = Tail(@)]

\* the feeder thread moves the oldest buffered object into the pipe
QFeed(q) == [buffer |-> Tail(q.buffer), pipe |-> Append(q.pipe, Head(q.buffer))]

\* `while not q.empty(): q.get(block=True, timeout=...)`: the loop receives what
\* is in the pipe, and whatever the feeder delivers before the next empty() poll
DrainChoices(q) == IF QEmpty(q) THEN {0} ELSE Len(q.pipe)..QSize(q)

Drained(q, n) == SubSeq(QContent(q), 1, n)

\* what the drain loop leaves behind is still in the buffer
AfterDrain(q, n) == [buffer |-> SubSeq(QContent(q), n + 1, QSize(q)), pipe |-> <<>>]

RECURSIVE PutAll(_, _)
PutAll(q, msgs) == IF msgs = <<>> THEN q ELSE PutAll(QPut(q, Head(msgs)), Tail(msgs))

----------------------------------------------------------------------------
(* Communicator.handle_event: one handler is registered for each of        *)
(* "info", "error", "expire" and "read_error"                              *)

RECURSIVE HandleEvents(_, _, _)
HandleEvents(log, event, msgs) ==
    IF msgs = <<>> THEN log
    ELSE HandleEvents(Append(log, <<event, Head(msgs)>>), event, Tail(msgs))

RECURSIVE EventMessages(_, _)
EventMessages(log, event) ==
    IF log = <<>> THEN <<>>
    ELSE IF Head(log)[1] = event
         THEN <<Head(log)[2]>> \o EventMessages(Tail(log), event)
         ELSE EventMessages(Tail(log), event)

----------------------------------------------------------------------------
(* The retry loop shared by info() and error() *)

max_attempts == 10

\* `if put_try_count >= max_attempts: raise ...` inside the except clause
ShouldRaiseLate(tries) == tries > max_attempts

ShouldRaise(tries) == tries >= max_attempts

\* `while queue.full(): last = queue.get(); count -= 1; handle_event("expire", last)`
RECURSIVE EvictWhileFull(_, _, _)
EvictWhileFull(q, count, expired) ==
    IF QFull(q)
    THEN EvictWhileFull(QAfterGet(q), count - 1, Append(expired, QHead(q)))
    ELSE [queue |-> q, count |-> count, expired |-> expired]

\* `while put_try_count < max_attempts: try: ... put ... except: ... else: break`
\* The environment makes the put of the first `fails` attempts raise.
RECURSIVE PutLoop(_, _, _, _, _, _)
PutLoop(q, count, expired, tries, fails, m) ==
    IF ~(tries < max_attempts)
    THEN [queue |-> q, count |-> count, expired |-> expired,
          tries |-> tries, raised |-> FALSE, added |-> FALSE]
    ELSE LET ev == EvictWhileFull(q, count, expired)
         IN IF tries + 1 <= fails
            THEN IF ShouldRaise(tries + 1)
                 THEN [queue |-> ev.queue, count |-> ev.count, expired |-> ev.expired,
                       tries |-> tries + 1, raised |-> TRUE, added |-> FALSE]
                 ELSE PutLoop(ev.queue, ev.count, ev.expired, tries + 1, fails, m)
            ELSE [queue |-> QPut(ev.queue, m), count |-> ev.count + 1,
                  expired |-> ev.expired, tries |-> tries,
                  raised |-> FALSE, added |-> TRUE]

\* the environment may make the next 1, max_attempts - 1, max_attempts or
\* max_attempts + 1 put() attempts raise
FailChoices == {1, max_attempts - 1, max_attempts, max_attempts + 1}

NoCall == [op |-> "none", message |-> 0, fails |-> 0, tries |-> 0,
           raised |-> FALSE, added |-> FALSE, carried |-> 0,
           before |-> <<>>, result |-> <<>>, count |-> 0, publish |-> FALSE]

Call(op) == [NoCall EXCEPT !.op = op]

----------------------------------------------------------------------------
(* QueueCommunicator.__init__ with the default information/errors,         *)
(* include_timestamp left at its default (False)                           *)

InitComm ==
    /\ maximum_size \in 0..MaxSize
    /\ verbosity \in {QUIET, LOUD}
    /\ information = EmptyQueue
    /\ errors = EmptyQueue
    /\ information_count = 0
    /\ error_count = 0
    /\ lock_owner = "none"
    /\ peer_messages = <<>>
    /\ handled = <<>>
    /\ written = <<>>
    /\ pure_info = TRUE
    /\ last_call = NoCall
    /\ put_failures = 0
    /\ ops = 0

\* the message of the next write: every call writes a message of its own
NextMessage == ops + 1

\* the handlers of every event are called whatever the publish argument is
PublishAlways(log, event, m, publish) == Append(log, <<event, m>>)

\* `if publish: self.handle_event("info", message)`
Publish(log, event, m, publish) ==
    IF publish THEN Append(log, <<event, m>>) ELSE log

\* info() after the verbosity gate: the retry loop under the lock, then publish
InfoBody(op, m, publish) ==
    LET r == PutLoop(information, information_count, <<>>, 0, put_failures, m)
        expired == HandleEvents(handled, "expire", r.expired)
    IN /\ lock_owner = "none"
       /\ information' = r.queue
       /\ information_count' = r.count
       /\ handled' = IF r.added
                     THEN Publish(expired, "info", m, publish)
                     ELSE expired
       /\ written' = IF r.added THEN Append(written, m) ELSE written
       /\ pure_info' = (pure_info /\ r.added /\ op = "info")
       /\ put_failures' = put_failures - r.tries
       /\ last_call' = [Call(op) EXCEPT !.message = m, !.fails = put_failures,
                            !.tries = r.tries, !.raised = r.raised,
                            !.added = r.added,
                            !.carried = IF r.raised THEN m ELSE 0,
                            !.before = QContent(information),
                            !.publish = publish]
       /\ UNCHANGED <<errors, error_count>>

Info(v, publish) ==
    /\ ops < MaxOps
    /\ ops' = ops + 1
    /\ IF Gated(v)
       THEN /\ last_call' = [Call("info_dropped") EXCEPT !.message = NextMessage]
            /\ UNCHANGED <<information, information_count, handled, written,
                           pure_info, errors, error_count, put_failures>>
       ELSE InfoBody("info", NextMessage, publish)
    /\ UNCHANGED <<maximum_size, verbosity, lock_owner, peer_messages>>

\* write(): self.info(message=json.dumps(...), include_timestamp=False)
Write ==
    /\ ops < MaxOps
    /\ ops' = ops + 1
    /\ InfoBody("write", NextMessage, FALSE)
    /\ UNCHANGED <<maximum_size, verbosity, lock_owner, peer_messages>>

\* error() with exception=None
Error(v, publish) ==
    /\ ops < MaxOps
    /\ ops' = ops + 1
    /\ IF Gated(v)
       THEN /\ last_call' = [Call("error_dropped") EXCEPT !.message = NextMessage]
            /\ UNCHANGED <<errors, error_count, handled, put_failures>>
       ELSE LET m == NextMessage
                r == PutLoop(errors, error_count, <<>>, 0, put_failures, m)
                expired == HandleEvents(handled, "expire", r.expired)
                \* `if put_try_count >= max_attempts: raise` after the loop
                raised == r.raised \/ r.tries >= max_attempts
            IN /\ lock_owner = "none"
               /\ errors' = r.queue
               /\ error_count' = r.count
               /\ handled' = IF r.added /\ ~raised
                             THEN Publish(expired, "error", m, publish)
                             ELSE expired
               /\ put_failures' = put_failures - r.tries
               /\ last_call' = [Call("error") EXCEPT !.message = m,
                                    !.fails = put_failures,
                                    !.tries = r.tries, !.raised = raised,
                                    !.added = r.added,
                                    !.carried = IF raised THEN m ELSE 0,
                                    !.before = QContent(errors),
                                    !.publish = publish]
    /\ pure_info' = FALSE
    /\ UNCHANGED <<maximum_size, verbosity, information, information_count,
                   lock_owner, peer_messages, written>>

\* get_info(enforce_length): drain, copy, re-enqueue, all under the lock
GetInfo(n, enforce) ==
    /\ ops < MaxOps
    /\ ops' = ops + 1
    /\ lock_owner = "none"
    /\ information' = PutAll(AfterDrain(information, n), Drained(information, n))
    /\ information_count' = (information_count - n) + n
    /\ last_call' = [Call("get_info") EXCEPT
                        !.before = QContent(information),
                        !.count = information_count,
                        !.result = Drained(information, n),
                        \* `assert len(messages) == self.information_count`
                        !.raised = enforce /\ n # information_count]
    /\ pure_info' = FALSE
    /\ UNCHANGED <<maximum_size, verbosity, errors, error_count, lock_owner,
                   peer_messages, handled, written, put_failures>>

GetErrors(n, enforce) ==
    /\ ops < MaxOps
    /\ ops' = ops + 1
    /\ lock_owner = "none"
    /\ errors' = PutAll(AfterDrain(errors, n), Drained(errors, n))
    /\ error_count' = (error_count - n) + n
    /\ last_call' = [Call("get_errors") EXCEPT
                        !.before = QContent(errors),
                        !.count = error_count,
                        !.result = Drained(errors, n),
                        !.raised = enforce /\ n # error_count]
    /\ pure_info' = FALSE
    /\ UNCHANGED <<maximum_size, verbosity, information, information_count,
                   lock_owner, peer_messages, handled, written, put_failures>>

\* read_errors(): drains the error queue and fires "read_error"; takes no lock
\* and leaves error_count alone
ReadErrors(n) ==
    /\ ops < MaxOps
    /\ ops' = ops + 1
    /\ errors' = AfterDrain(errors, n)
    /\ handled' = HandleEvents(handled, "read_error", Drained(errors, n))
    /\ last_call' = [Call("read_errors") EXCEPT
                        !.before = QContent(errors),
                        !.result = Drained(errors, n)]
    /\ pure_info' = FALSE
    /\ UNCHANGED <<maximum_size, verbosity, information, information_count,
                   error_count, lock_owner, peer_messages, written,
                   put_failures>>

\* read_info(): drains the info queue; takes no lock
ReadInfo(n) ==
    /\ ops < MaxOps
    /\ ops' = ops + 1
    /\ information' = AfterDrain(information, n)
    /\ last_call' = [Call("read_info") EXCEPT
                        !.before = QContent(information),
                        !.result = Drained(information, n)]
    /\ pure_info' = FALSE
    /\ UNCHANGED <<maximum_size, verbosity, errors, information_count,
                   error_count, lock_owner, peer_messages, handled, written,
                   put_failures>>

\* read(): self.__information.get(block=True); blocks while nothing is queued
Read ==
    /\ ops < MaxOps
    /\ ops' = ops + 1
    /\ QSize(information) > 0
    /\ information' = QAfterGet(information)
    /\ last_call' = [Call("read") EXCEPT
                        !.before = QContent(information),
                        !.result = <<QHead(information)>>]
    /\ pure_info' = FALSE
    /\ UNCHANGED <<maximum_size, verbosity, errors, information_count,
                   error_count, lock_owner, peer_messages, handled, written,
                   put_failures>>

\* a second thread inside get_info(): it has taken the lock and drained the queue
PeerDrain(n) ==
    /\ ops < MaxOps
    /\ ops' = ops + 1
    /\ lock_owner = "none"
    /\ QSize(information) > 0
    /\ lock_owner' = "peer"
    /\ peer_messages' = Drained(information, n)
    /\ information' = AfterDrain(information, n)
    /\ information_count' = information_count - n
    /\ last_call' = [Call("peer_drain") EXCEPT !.before = QContent(information)]
    /\ pure_info' = FALSE
    /\ UNCHANGED <<maximum_size, verbosity, errors, error_count, handled,
                   written, put_failures>>

\* the second thread re-enqueues what it drained and leaves the lock
PeerRestore ==
    /\ lock_owner = "peer"
    /\ lock_owner' = "none"
    /\ information' = PutAll(information, peer_messages)
    /\ information_count' = information_count + Len(peer_messages)
    /\ peer_messages' = <<>>
    /\ last_call' = [Call("peer_get_info") EXCEPT !.result = peer_messages]
    /\ UNCHANGED <<maximum_size, verbosity, errors, error_count, handled,
                   written, pure_info, put_failures, ops>>

\* the feeder threads of the two queues
FeedInformation ==
    /\ information.buffer # <<>>
    /\ information' = QFeed(information)
    /\ UNCHANGED <<maximum_size, verbosity, errors, information_count, error_count,
                   lock_owner, peer_messages, handled, written, pure_info,
                   last_call, put_failures, ops>>

FeedErrors ==
    /\ errors.buffer # <<>>
    /\ errors' = QFeed(errors)
    /\ UNCHANGED <<maximum_size, verbosity, information, information_count,
                   error_count, lock_owner, peer_messages, handled, written,
                   pure_info, last_call, put_failures, ops>>

\* the environment: the coming put() attempts raise (a closed queue, an interrupt)
DisturbPuts(f) ==
    /\ put_failures = 0
    /\ ops < MaxOps
    /\ ops' = ops + 1
    /\ put_failures' = f
    /\ UNCHANGED <<maximum_size, verbosity, information, errors, information_count,
                   error_count, lock_owner, peer_messages, handled, written,
                   pure_info, last_call>>

NextComm ==
    \/ \E v \in {None, NORMAL}, p \in BOOLEAN : Info(v, p) /\ UNCHANGED notComm
    \/ Write /\ UNCHANGED notComm
    \/ \E v \in {None, NORMAL}, p \in BOOLEAN : Error(v, p) /\ UNCHANGED notComm
    \/ \E n \in DrainChoices(information), e \in BOOLEAN : GetInfo(n, e) /\ UNCHANGED notComm
    \/ \E n \in DrainChoices(errors), e \in BOOLEAN : GetErrors(n, e) /\ UNCHANGED notComm
    \/ \E n \in DrainChoices(errors) : ReadErrors(n) /\ UNCHANGED notComm
    \/ \E n \in DrainChoices(information) : ReadInfo(n) /\ UNCHANGED notComm
    \/ Read /\ UNCHANGED notComm
    \/ \E n \in DrainChoices(information) : PeerDrain(n) /\ UNCHANGED notComm
    \/ PeerRestore /\ UNCHANGED notComm
    \/ FeedInformation /\ UNCHANGED notComm
    \/ FeedErrors /\ UNCHANGED notComm
    \/ \E f \in FailChoices : DisturbPuts(f) /\ UNCHANGED notComm

----------------------------------------------------------------------------
(* Properties of the communicator *)

ExpireLog == EventMessages(handled, "expire")

\* C1: on a communicator created with maximum_size = N > 0, after N + k
\* consecutive info() writes that pass the verbosity gate the info queue holds
\* exactly the N most recent messages in write order, and the "expire" handler
\* has been invoked exactly k times, once per evicted message, oldest first.
C1_FifoWithEvict ==
    (pure_info /\ maximum_size > 0) =>
        LET n == Len(written)
            k == IF n > maximum_size THEN n - maximum_size ELSE 0
        IN /\ QContent(information) = SubSeq(written, k + 1, n)
           /\ ExpireLog = SubSeq(written, 1, k)
           /\ information_count = n - k

C1_Witness ==
    /\ pure_info
    /\ maximum_size > 1
    /\ Len(written) > maximum_size
    /\ ExpireLog = <<written[1]>>

\* C2: get_info() (and get_errors()) returns all queued messages in FIFO order
\* and leaves the queue holding the same messages in the same order, with the
\* item counter unchanged.
C2_GetReturnsAllAndPreserves ==
    /\ last_call.op = "get_info" =>
          /\ last_call.result = last_call.before
          /\ QContent(information) = last_call.before
          /\ information_count = last_call.count
    /\ last_call.op = "get_errors" =>
          /\ last_call.result = last_call.before
          /\ QContent(errors) = last_call.before
          /\ error_count = last_call.count

\* C6: every operation that adds to or removes from a queue, or touches an item
\* counter, runs while holding the communicator's lock: while another thread
\* holds the lock, neither queue and neither counter changes.
C6_QueuesChangeOnlyUnderLock ==
    [][(lock_owner = "peer" /\ lock_owner' = "peer") =>
          /\ QContent(information') = QContent(information)
          /\ QContent(errors') = QContent(errors)
          /\ information_count' = information_count
          /\ error_count' = error_count]_vars

\* C7: if every attempt to enqueue fails, info() (and error()) raises after
\* exactly max_attempts = 10 failed attempts, never earlier and never later, and
\* the raised error carries the message.
C7_RaisesAfterTenFailures ==
    last_call.op \in {"info", "write", "error"} =>
        /\ last_call.raised <=> last_call.fails >= 10
        /\ last_call.raised =>
              /\ last_call.tries = 10
              /\ ~last_call.added
              /\ last_call.carried = last_call.message
        /\ ~last_call.raised =>
              /\ last_call.added
              /\ last_call.tries = last_call.fails

C7_Witness ==
    /\ last_call.op = "info"
    /\ last_call.raised
    /\ last_call.tries = 10
    /\ last_call.fails >= 10

\* the handlers of the event were called with the message
Handled(log, event, m) == \E k \in 1..Len(log) : log[k] = <<event, m>>

\* C24: info(message, publish=p) enqueues the message whenever it passes the
\* verbosity gate, whatever p is, and invokes the "info" handlers with that
\* message if and only if p is true; error() behaves the same way with the
\* "error" handlers.  (A call that raises after max_attempts failed attempts
\* enqueues nothing and calls no handler.)
C24_PublishDecidesHandlers ==
    [][(/\ ops' = ops + 1
        /\ last_call'.message = NextMessage
        /\ last_call'.op \in {"info", "error"}
        /\ ~last_call'.raised)
       => /\ last_call'.added
          /\ last_call'.op = "info" =>
                /\ QContent(information') # <<>>
                /\ QContent(information')[Len(QContent(information'))] = last_call'.message
          /\ last_call'.op = "error" =>
                /\ QContent(errors') # <<>>
                /\ QContent(errors')[Len(QContent(errors'))] = last_call'.message
          /\ Handled(handled', last_call'.op, last_call'.message) <=> last_call'.publish
          /\ ~Handled(handled, last_call'.op, last_call'.message)]_vars

\* after a published message, a message that was enqueued without being
\* published: the handlers saw the first one only
C24_Witness ==
    /\ last_call.op = "info"
    /\ last_call.added
    /\ ~last_call.publish
    /\ ~Handled(handled, "info", last_call.message)
    /\ \E m \in 1..MaxOps :
          /\ m < last_call.message
          /\ Handled(handled, "info", m)
          /\ \E k \in 1..Len(QContent(information)) : QContent(information)[k] = m
    /\ QContent(information)[Len(QContent(information))] = last_call.message

\* C31: whenever no operation is in progress, information_count is the number
\* of messages in the info queue and error_count the number of messages in the
\* error queue, after any sequence of info, error, get_info, get_errors,
\* read_info, read_errors and read calls.
C31_CountsMatchQueues ==
    lock_owner = "none" =>
        /\ information_count = QSize(information)
        /\ error_count = QSize(errors)

----------------------------------------------------------------------------
(* EventRouter and EventFunctionGroup.  A handler is described by what      *)
(* calling it does:                                                        *)
(*   "sync_value"      a function that returns a plain value               *)
(*   "sync_awaitable"  a function that returns an awaitable                *)
(*   "async_value"     a coroutine function whose result is a plain value  *)
(*   "async_awaitable" a coroutine function whose result is an awaitable   *)
(*   "async_raises"    a coroutine function whose body raises              *)

HandlerKinds == {"sync_value", "sync_awaitable", "async_value", "async_awaitable",
                 "async_raises"}

\* EventFunction.is_async: inspect.iscoroutinefunction
IsAsync(kind) == kind \in {"async_value", "async_awaitable", "async_raises"}

\* what EventFunction.__call__ returns is awaitable
ReturnsAwaitable(kind) == IsAsync(kind) \/ kind = "sync_awaitable"

\* the awaitable that handler i returned in call c; "nested" is the awaitable
\* an "async_awaitable" coroutine evaluates to
Awaitable(c, i) == <<c, i, "returned">>

Nested(c, i) == <<c, i, "nested">>

NoRouterCall == [op |-> "none", nargs |-> 0, outcome |-> "none", handlers |-> 0,
                 invoked |-> <<>>, returned |-> <<>>, stored |-> <<>>,
                 dropped |-> {}]

NoAwaitable == <<0, 0, "none">>

NoDrain == [pc |-> "idle", current |-> NoAwaitable, outcome |-> "none",
            log |-> <<>>, obtained |-> {}]

InitRouter ==
    /\ stored = {}
    /\ drain = NoDrain
    /\ fail_on_missing_event \in BOOLEAN
    /\ registered = FALSE
    /\ functions = <<>>
    /\ active_awaitables = <<>>
    /\ awaited = {}
    /\ tasks = <<>>
    /\ fire_pc = "idle"
    /\ router_call = NoRouterCall
    /\ calls = 0

\* register_event(): a new EventFunctionGroup without handlers
RegisterEvent ==
    /\ ~registered
    /\ registered' = TRUE
    /\ UNCHANGED <<fail_on_missing_event, functions, active_awaitables, awaited,
                   tasks, fire_pc, router_call, calls, stored, drain>>

\* register_handler() with one handler whose signature complies
RegisterHandler(kind) ==
    /\ Len(functions) < MaxHandlers
    /\ fire_pc = "idle"
    /\ registered' = TRUE
    /\ functions' = Append(functions, kind)
    /\ UNCHANGED <<fail_on_missing_event, active_awaitables, awaited, tasks,
                   fire_pc, router_call, calls, stored, drain>>

\* what trigger() and fire() do before the handlers are reached:
\*   an unknown event is dropped or raises ValueError;
\*   self.__prepare_call(event_name=event_name, caller=caller, *args, **kwargs)
\*   binds the first positional argument to event_name a second time: TypeError
Prepare(nargs) ==
    IF ~registered
    THEN IF fail_on_missing_event THEN "ValueError" ELSE "dropped"
    ELSE IF nargs > 0 THEN "TypeError" ELSE "prepared"

\* EventFunctionGroup.trigger: call every function in order, keep the awaitables
RECURSIVE GroupTrigger(_, _, _, _)
GroupTrigger(c, i, invoked, coroutines) ==
    IF i > Len(functions)
    THEN [invoked |-> invoked, coroutines |-> coroutines]
    ELSE GroupTrigger(c, i + 1, Append(invoked, i),
                      IF ReturnsAwaitable(functions[i])
                      THEN Append(coroutines, Awaitable(c, i))
                      ELSE coroutines)

\* EventRouter.trigger
Trigger(nargs) ==
    /\ calls < MaxCalls
    /\ calls' = calls + 1
    /\ LET c == calls + 1
           prepared == Prepare(nargs)
           g == GroupTrigger(c, 1, <<>>, <<>>)
       IN IF prepared = "prepared"
          THEN /\ active_awaitables' = active_awaitables \o g.coroutines
               /\ router_call' = [NoRouterCall EXCEPT
                                     !.op = "trigger", !.nargs = nargs,
                                     !.outcome = "returned",
                                     !.handlers = Len(functions),
                                     !.invoked = g.invoked,
                                     !.returned = g.coroutines,
                                     !.stored = g.coroutines]
          ELSE /\ active_awaitables' = active_awaitables
               /\ router_call' = [NoRouterCall EXCEPT
                                     !.op = "trigger", !.nargs = nargs,
                                     !.outcome = prepared,
                                     !.handlers = Len(functions)]
    /\ stored' = stored \cup {active_awaitables'[k] :
                              k \in (Len(active_awaitables) + 1)..Len(active_awaitables')}
    /\ UNCHANGED <<fail_on_missing_event, registered, functions, awaited, tasks,
                   fire_pc, drain>>

AsyncIndexes == {i \in 1..Len(functions) : IsAsync(functions[i])}

RECURSIVE IndexesWhere(_, _)
IndexesWhere(i, async) ==
    IF i > Len(functions) THEN <<>>
    ELSE IF IsAsync(functions[i]) = async
         THEN <<i>> \o IndexesWhere(i + 1, async)
         ELSE IndexesWhere(i + 1, async)

\* EventFunctionGroup.fire up to `await scheduled_async_functions`: the coroutine
\* functions are called and gathered, the synchronous functions are called inline
\* and what they return is not kept
FireStart(nargs) ==
    /\ calls < MaxCalls
    /\ fire_pc = "idle"
    /\ calls' = calls + 1
    /\ LET c == calls + 1
           prepared == Prepare(nargs)
       IN IF prepared = "prepared"
          THEN /\ tasks' = [i \in AsyncIndexes |-> "scheduled"]
               /\ fire_pc' = "gathering"
               /\ router_call' = [NoRouterCall EXCEPT
                     !.op = "fire", !.nargs = nargs, !.outcome = "awaiting",
                     !.handlers = Len(functions),
                     !.invoked = IndexesWhere(1, TRUE) \o IndexesWhere(1, FALSE),
                     !.dropped = {Awaitable(c, i) : i \in
                                    {j \in 1..Len(functions) :
                                        functions[j] = "sync_awaitable"}}]
          ELSE /\ router_call' = [NoRouterCall EXCEPT
                                     !.op = "fire", !.nargs = nargs,
                                     !.outcome = prepared,
                                     !.handlers = Len(functions)]
               /\ UNCHANGED <<tasks, fire_pc>>
    /\ UNCHANGED <<fail_on_missing_event, registered, functions,
                   active_awaitables, awaited, stored, drain>>

\* the event loop runs one gathered coroutine to its end
TaskRun(i) ==
    /\ i \in DOMAIN tasks
    /\ tasks[i] = "scheduled"
    /\ tasks' = [tasks EXCEPT ![i] = IF functions[i] = "async_raises"
                                     THEN "failed" ELSE "done"]
    /\ UNCHANGED <<fail_on_missing_event, registered, functions,
                   active_awaitables, awaited, fire_pc, router_call, calls, stored, drain>>

\* `results = list(await scheduled_async_functions)` resumes: gather() without
\* return_exceptions hands over the first exception as soon as one task fails,
\* otherwise the results once every task is done; awaitable results are awaited
FireFinish ==
    /\ fire_pc = "gathering"
    /\ \/ \E i \in DOMAIN tasks : tasks[i] = "failed"
       \/ \A i \in DOMAIN tasks : tasks[i] = "done"
    /\ fire_pc' = "idle"
    /\ IF \E i \in DOMAIN tasks : tasks[i] = "failed"
       THEN /\ router_call' = [router_call EXCEPT !.outcome = "raised"]
            /\ awaited' = awaited
       ELSE /\ router_call' = [router_call EXCEPT !.outcome = "completed"]
            /\ awaited' = awaited \cup
                  {Nested(calls, i) : i \in
                     {j \in DOMAIN tasks : functions[j] = "async_awaitable"}}
    /\ UNCHANGED <<fail_on_missing_event, registered, functions,
                   active_awaitables, tasks, calls, stored, drain>>

\* what `await awaitable` evaluates to in complete_active_tasks: the awaitable a
\* handler returned gives the handler's result (a coroutine for an
\* "async_awaitable" handler), the coroutine so obtained gives a plain value
AwaitedValue(awaitable) ==
    IF awaitable[3] = "returned" /\ functions[awaitable[2]] = "async_awaitable"
    THEN <<awaitable[1], awaitable[2], "nested">>
    ELSE NoAwaitable

\* the awaited coroutine's body raises
AwaitRaises(awaitable) ==
    awaitable[3] = "returned" /\ functions[awaitable[2]] = "async_raises"

\* inspect.iscoroutine(awaited_value)
IsCoroutine(awaited_value) == awaited_value # NoAwaitable

\* the loop body after the await, without the append
RequeueNever(pending, awaited_value) == pending

\* `if inspect.iscoroutine(awaited_value): self.__active_awaitables.append(awaited_value)`
Requeue(pending, awaited_value) ==
    IF IsCoroutine(awaited_value) THEN Append(pending, awaited_value) ELSE pending

\* `while self.__active_awaitables: awaitable = self.__active_awaitables.pop()`
\* up to the await: with an empty list the call returns, otherwise the last
\* awaitable is taken off the list and awaited
PopOrReturn(pending, log, obtained) ==
    IF pending = <<>>
    THEN [pending |-> pending,
          drain |-> [pc |-> "idle", current |-> NoAwaitable, outcome |-> "returned",
                     log |-> log, obtained |-> obtained]]
    ELSE [pending |-> SubSeq(pending, 1, Len(pending) - 1),
          drain |-> [pc |-> "awaiting", current |-> pending[Len(pending)],
                     outcome |-> "awaiting",
                     log |-> Append(log, pending[Len(pending)]), obtained |-> obtained]]

\* complete_active_tasks() is called and runs to its first await, or returns
CompleteActiveTasks ==
    /\ drain.pc = "idle"
    /\ \E r \in {PopOrReturn(active_awaitables, drain.log, drain.obtained)} :
          /\ active_awaitables' = r.pending
          /\ drain' = r.drain
    /\ UNCHANGED <<fail_on_missing_event, registered, functions, awaited, tasks,
                   fire_pc, router_call, calls, stored>>

\* the awaited awaitable is over and complete_active_tasks resumes: an exception
\* leaves the call; otherwise a coroutine result goes onto the list and the loop
\* goes on to its next await or to its end
AwaitResumes ==
    /\ drain.pc = "awaiting"
    /\ IF AwaitRaises(drain.current)
       THEN /\ drain' = [drain EXCEPT !.pc = "idle", !.current = NoAwaitable,
                                      !.outcome = "raised"]
            /\ UNCHANGED active_awaitables
       ELSE \E awaited_value \in {AwaitedValue(drain.current)} :
            \E r \in {PopOrReturn(Requeue(active_awaitables, awaited_value), drain.log,
                                  IF IsCoroutine(awaited_value)
                                  THEN drain.obtained \cup {awaited_value}
                                  ELSE drain.obtained)} :
               /\ active_awaitables' = r.pending
               /\ drain' = r.drain
    /\ UNCHANGED <<fail_on_missing_event, registered, functions, awaited, tasks,
                   fire_pc, router_call, calls, stored>>

NextRouter ==
    \/ RegisterEvent /\ UNCHANGED notRouter
    \/ \E k \in HandlerKinds : RegisterHandler(k) /\ UNCHANGED notRouter
    \/ \E n \in 0..MaxArgs : Trigger(n) /\ UNCHANGED notRouter
    \/ \E n \in 0..MaxArgs : FireStart(n) /\ UNCHANGED notRouter
    \/ \E i \in 1..MaxHandlers : TaskRun(i) /\ UNCHANGED notRouter
    \/ FireFinish /\ UNCHANGED notRouter
    \/ CompleteActiveTasks /\ UNCHANGED notRouter
    \/ AwaitResumes /\ UNCHANGED notRouter

----------------------------------------------------------------------------
(* Properties of the router *)

\* the handlers 1..n in registration order
InOrder(n) == [i \in 1..n |-> i]

\* C3: trigger(event_name, ...) on a registered event invokes every handler of
\* the event exactly once, in registration order, and every awaitable a handler
\* returned is appended to the router's pending awaitables.
C3_TriggerInvokesAllInOrder ==
    (router_call.op = "trigger" /\ router_call.outcome # "dropped"
        /\ router_call.outcome # "ValueError") =>
        /\ router_call.invoked = InOrder(router_call.handlers)
        /\ router_call.stored = router_call.returned
        /\ \A i \in 1..router_call.handlers :
              ReturnsAwaitable(functions[i]) =>
                 \E k \in 1..Len(active_awaitables) :
                    active_awaitables[k] = Awaitable(calls, i)

\* C4: fire(event_name, ...) does not complete until every asynchronous handler
\* has finished and every awaitable returned by a synchronous handler has been
\* awaited.
C4_FireAwaitsEverything ==
    (router_call.op = "fire" /\ router_call.outcome \in {"completed", "raised"}) =>
        /\ \A i \in DOMAIN tasks : tasks[i] # "scheduled"
        /\ router_call.dropped \subseteq awaited

\* how often an awaitable was awaited by complete_active_tasks
Awaits(log, awaitable) == Cardinality({k \in 1..Len(log) : log[k] = awaitable})

\* C29: when complete_active_tasks() returns, the list of pending awaitables is
\* empty, and every awaitable that trigger calls stored before, and every
\* coroutine obtained by awaiting one of them, has been awaited exactly once.
C29_DrainAwaitsEachOnce ==
    [][(/\ drain'.pc = "idle"
        /\ drain'.outcome = "returned"
        /\ drain' # drain)
       => /\ active_awaitables' = <<>>
          /\ \A awaitable \in stored' \cup drain'.obtained :
                Awaits(drain'.log, awaitable) = 1
          /\ \A awaitable \in stored' :
                IsCoroutine(AwaitedValue(awaitable)) => AwaitedValue(awaitable) \in drain'.obtained]_vars

\* a drain that returned after awaiting the awaitables of two trigger calls,
\* the earlier call's before the later call's, and a coroutine one of them
\* evaluated to
C29_Witness ==
    /\ drain.pc = "idle"
    /\ drain.outcome = "returned"
    /\ active_awaitables = <<>>
    /\ Len(drain.log) >= 3
    /\ drain.obtained # {}
    /\ \A awaitable \in drain.obtained : Awaits(drain.log, awaitable) = 1
    /\ \E j, k \in 1..Len(drain.log) :
          /\ j < k
          /\ drain.log[j] \in stored /\ drain.log[k] \in stored
          /\ drain.log[j][1] < drain.log[k][1]
    /\ stored # {}

----------------------------------------------------------------------------
(* SynchronousWorkDistributor and ThreadedWorkDistributor.  A work item is  *)
(* one call of the work function with its keyword arguments; it either     *)
(* returns a value ("ok") or raises ("raises").                            *)

ItemKinds == {"ok", "raises"}

RECURSIVE WorkLists(_)
WorkLists(n) ==
    IF n = 0 THEN {<<>>}
    ELSE WorkLists(n - 1) \cup
         {Append(w, k) : w \in {x \in WorkLists(n - 1) : Len(x) = n - 1},
                         k \in ItemKinds}

NoPerform == [op |-> "none", outcome |-> "none", results |-> <<>>]

InitDist ==
    /\ work = <<>>
    /\ work_state = <<>>
    /\ perform_call = NoPerform
    /\ performs = 0

\* the index of the first item that raises, or 0
FirstRaising(items) ==
    IF \E i \in 1..Len(items) : items[i] = "raises"
    THEN CHOOSE i \in 1..Len(items) :
            /\ items[i] = "raises"
            /\ \A j \in 1..(i - 1) : items[j] = "ok"
    ELSE 0

\* the value item i evaluates to
ResultOf(i) == <<"value", i>>

\* SynchronousWorkDistributor.perform: the list comprehension calls the items in
\* order; an item that raises ends the comprehension and the call
Perform(items) ==
    /\ performs < MaxPerforms
    /\ ~(perform_call.outcome = "awaiting")
    /\ performs' = performs + 1
    /\ work' = items
    /\ LET f == FirstRaising(items)
       IN IF f = 0
          THEN /\ work_state' = [i \in 1..Len(items) |-> "done"]
               /\ perform_call' = [op |-> "perform", outcome |-> "returned",
                                   results |-> [i \in 1..Len(items) |-> ResultOf(i)]]
          ELSE /\ work_state' = [i \in 1..Len(items) |->
                                    IF i < f THEN "done"
                                    ELSE IF i = f THEN "failed" ELSE "pending"]
               /\ perform_call' = [op |-> "perform", outcome |-> "raised",
                                   results |-> <<>>]

\* ThreadedWorkDistributor.perform_asynchronously up to `await asyncio.gather(...)`:
\* every item became a coroutine or a to_thread call and is scheduled by gather
PerformAsynchronously(items) ==
    /\ performs < MaxPerforms
    /\ ~(perform_call.outcome = "awaiting")
    /\ performs' = performs + 1
    /\ work' = items
    /\ work_state' = [i \in 1..Len(items) |-> "scheduled"]
    /\ perform_call' = [op |-> "perform_asynchronously", outcome |-> "awaiting",
                        results |-> <<>>]

\* the event loop (or a worker thread) runs one scheduled item to its end
ItemRun(i) ==
    /\ i \in 1..Len(work)
    /\ work_state[i] = "scheduled"
    /\ work_state' = [work_state EXCEPT ![i] = IF work[i] = "raises"
                                               THEN "failed" ELSE "done"]
    /\ UNCHANGED <<work, perform_call, performs>>

\* the awaited asyncio.gather resumes: without return_exceptions the
\* first exception is raised in the caller as soon as an item fails, while the
\* other items are left running; otherwise the results come back in input order
GatherFinish ==
    /\ perform_call.outcome = "awaiting"
    /\ \/ \E i \in 1..Len(work) : work_state[i] = "failed"
       \/ \A i \in 1..Len(work) : work_state[i] = "done"
    /\ perform_call' =
          IF \E i \in 1..Len(work) : work_state[i] = "failed"
          THEN [perform_call EXCEPT !.outcome = "raised"]
          ELSE [perform_call EXCEPT !.outcome = "returned",
                                    !.results = [i \in 1..Len(work) |-> ResultOf(i)]]
    /\ UNCHANGED <<work, work_state, performs>>

NextDist ==
    \/ \E items \in WorkLists(MaxItems) : Perform(items) /\ UNCHANGED notDist
    \/ \E items \in WorkLists(MaxItems) : PerformAsynchronously(items) /\ UNCHANGED notDist
    \/ \E i \in 1..MaxItems : ItemRun(i) /\ UNCHANGED notDist
    \/ GatherFinish /\ UNCHANGED notDist

----------------------------------------------------------------------------
(* Properties of the work distributors *)

\* C5: an item that raises does not stop the other items; once the call is over
\* every item has been run, the exception sits in the result slot of the item
\* that raised and the other slots hold the other items' results.
C5_ErrorsDoNotCancelOthers ==
    perform_call.outcome \in {"returned", "raised"} =>
        /\ \A i \in 1..Len(work) : work_state[i] \in {"done", "failed"}
        /\ perform_call.outcome = "returned"
        /\ Len(perform_call.results) = Len(work)
        /\ \A i \in 1..Len(work) :
              work[i] = "ok" => perform_call.results[i] = ResultOf(i)

----------------------------------------------------------------------------
(* The expression engine (evaluations/utilities/expressions.py).           *)
(*                                                                         *)
(* A name is the sequence of its characters.  A string is a sequence of     *)
(* parts: a plain character, a variable reference "{{% name %}}", or an     *)
(* expression "<% 'one' + 'two' %>".  A value is an integer, a string or    *)
(* None.  A mapping of variables is a function from names to values.        *)

Chr(c) == [p |-> "chr", one |-> <<c>>, two |-> <<>>]

Ref(name) == [p |-> "ref", one |-> name, two |-> <<>>]

Expr(one, two) == [p |-> "expr", one |-> one, two |-> two]

IntV(n) == [t |-> "int", n |-> n, s |-> <<>>]

StrV(parts) == [t |-> "str", n |-> 0, s |-> parts]

NoneV == [t |-> "none", n |-> 0, s |-> <<>>]

\* the plain string spelled by the characters of `name`
Text(name) == StrV([i \in 1..Len(name) |-> Chr(name[i])])

EmptyMap == <<>>

\* CONSTANT_VARIABLE_VALUES: "NULL" is None; "NOW" is a function that formats the
\* current time, a plain string written "t" here
NULL == <<"N", "U", "L", "L">>

NOW == <<"N", "O", "W">>

CONSTANT_VARIABLE_VALUES == (NULL :> NoneV) @@ (NOW :> Text(<<"t">>))

DigitChars == <<"0", "1", "2", "3", "4", "5", "6", "7", "8", "9">>

RECURSIVE Digits(_)
Digits(n) ==
    IF n < 10 THEN <<Chr(DigitChars[n + 1])>>
    ELSE Digits(n \div 10) \o <<Chr(DigitChars[(n % 10) + 1])>>

\* str(value), as a sequence of parts
Str(value) ==
    CASE value.t = "int" -> Digits(value.n)
      [] value.t = "str" -> value.s
      [] OTHER -> Text(<<"N", "o", "n", "e">>).s

\* the position of the first part of the given kind, 0 when there is none
FirstPart(parts, kind) ==
    IF \E i \in 1..Len(parts) : parts[i].p = kind
    THEN CHOOSE i \in 1..Len(parts) :
            /\ parts[i].p = kind
            /\ \A j \in 1..(i - 1) : parts[j].p # kind
    ELSE 0

\* VariablePattern.search(value) finds a reference
HasReference(value) == value.t = "str" /\ FirstPart(value.s, "ref") > 0

\* extract_variable_name / VariablePattern.search(...).group("variable_name").strip()
VariableName(value) == value.s[FirstPart(value.s, "ref")].one

\* a string without references and expressions, usable as a mapping key
IsPlain(value) == value.t = "str" /\ \A i \in 1..Len(value.s) : value.s[i].p = "chr"

NameOf(value) == [i \in 1..Len(value.s) |-> value.s[i].one[1]]

\* `for key, value in mapping`: iterating a mapping yields its keys, and each key
\* is unpacked into two items; only keys of two characters unpack
Unpackable(mapping) == \A k \in DOMAIN mapping : Len(k) = 2

\* the mapping such a comprehension builds (a later key wins over an earlier one
\* with the same first character)
Unpacked(mapping) ==
    [k \in {<<key[1]>> : key \in DOMAIN mapping} |->
        Text(<<(CHOOSE key \in DOMAIN mapping : key[1] = k[1])[2]>>)]

\* variables.update({... if key not in variables}): own definitions stay
Merge(own, inherited) ==
    [k \in DOMAIN own \cup DOMAIN inherited |->
        IF k \in DOMAIN own THEN own[k] ELSE inherited[k]]

\* should_replace_variable
\* raises ValueError without variables; otherwise the value is a string whose
\* first reference names a known variable or constant
should_replace_variable(variables, encountered_value) ==
    IF variables = EmptyMap
    THEN [error |-> "ValueError", holds |-> FALSE]
    ELSE [error |-> "none",
          holds |-> /\ HasReference(encountered_value)
                    /\ \/ VariableName(encountered_value) \in DOMAIN variables
                       \/ VariableName(encountered_value) \in
                              DOMAIN CONSTANT_VARIABLE_VALUES]

\* re.sub(with_variable_name_pattern, replacement, encountered_value)
RECURSIVE Substitute(_, _, _)
Substitute(parts, name, replacement) ==
    IF parts = <<>> THEN <<>>
    ELSE (IF Head(parts) = Ref(name) THEN replacement ELSE <<Head(parts)>>)
         \o Substitute(Tail(parts), name, replacement)

\* apply_variable
apply_variable(current_variables, encountered_value) ==
    LET variable_name == VariableName(encountered_value)
        replacement == IF variable_name \in DOMAIN current_variables
                       THEN current_variables[variable_name]
                       ELSE CONSTANT_VARIABLE_VALUES[variable_name]
        value_without_variable == Substitute(encountered_value.s, variable_name, <<>>)
    IN IF variable_name \notin DOMAIN current_variables
          /\ variable_name \notin DOMAIN CONSTANT_VARIABLE_VALUES
       THEN [error |-> "none", value |-> encountered_value]
       ELSE IF Len(value_without_variable) > 0
            THEN [error |-> "none",
                  value |-> StrV(Substitute(encountered_value.s, variable_name,
                                            Str(replacement)))]
            ELSE [error |-> "none", value |-> replacement]

\* is_expression
is_expression(encountered_value) ==
    [error |-> "none",
     holds |-> encountered_value.t = "str" /\ FirstPart(encountered_value.s, "expr") > 0]

\* the `while value in variables and value not in keys` loops of evaluate_expression
RECURSIVE FollowVariables(_, _, _)
FollowVariables(variables, value, keys) ==
    IF IsPlain(value) /\ NameOf(value) \in DOMAIN variables /\ NameOf(value) \notin keys
    THEN FollowVariables(variables, variables[NameOf(value)], keys \cup {NameOf(value)})
    ELSE value

\* perform_operation with the "+" of ExpressionOperator
perform_operation(value_one, value_two) ==
    IF value_one.t = "int" /\ value_two.t = "int"
    THEN [error |-> "none", value |-> IntV(value_one.n + value_two.n)]
    ELSE IF value_one.t = "str" /\ value_two.t = "str"
         THEN [error |-> "none", value |-> StrV(value_one.s \o value_two.s)]
         ELSE [error |-> "TypeError", value |-> NoneV]

\* evaluate_expression
evaluate_expression(variables, expression) ==
    LET found == expression.s[FirstPart(expression.s, "expr")]
        Get(name) == IF name \in DOMAIN variables THEN variables[name] ELSE Text(name)
        value_one == FollowVariables(variables, Get(found.one), {})
        value_two == FollowVariables(variables, Get(found.two), {})
    IN IF FirstPart(expression.s, "expr") = 0
       THEN [error |-> "none", value |-> expression]
       ELSE perform_operation(value_one, value_two)

\* the predicate and transformation of one pass: "variables" is
\* should_replace_variable with apply_variable, "expressions" is is_expression
\* with evaluate_expression
Predicate(pass, variables, value) ==
    IF pass = "variables" THEN should_replace_variable(variables, value)
    ELSE is_expression(value)

Transformation(pass, variables, value) ==
    IF pass = "variables" THEN apply_variable(variables, value)
    ELSE evaluate_expression(variables, value)

(* A mapping of the tree is its entries in dictionary order; the entry      *)
(* under the "variables" key is kept apart (has_variables, variables).      *)
(* An entry holds a scalar value or a nested mapping.                       *)

\* the element of a one-element set; with {e(x) : x \in {v}} it names a value
\* that is computed once
TheOnly(S) == CHOOSE x \in S : TRUE

NoTree == [has_variables |-> FALSE, variables |-> EmptyMap, entries |-> <<>>]

Scalar(key, value) == [key |-> key, is_tree |-> FALSE, value |-> value, tree |-> NoTree]

Branch(key, tree) == [key |-> key, is_tree |-> TRUE, value |-> NoneV, tree |-> tree]

\* a walk that forgets the changes made below the entry it is at
AddNothing(change_count, changes) == change_count

\* `change_count += ...` in the walks over entries
AddChanges(change_count, changes) == change_count + changes

\* `if tree[key] != transformed_value`
Changed(old, new) == old # new

\* one scalar entry of transform_tree: it is assigned, and counted, when the
\* predicate holds and the transformation gives a different value
TransformScalar(value, pass, variables) ==
    TheOnly({
        IF wanted.error # "none"
        THEN [value |-> value, count |-> 0, error |-> wanted.error]
        ELSE IF ~wanted.holds
        THEN [value |-> value, count |-> 0, error |-> "none"]
        ELSE TheOnly({
                IF transformed.error # "none"
                THEN [value |-> value, count |-> 0, error |-> transformed.error]
                ELSE IF Changed(value, transformed.value)
                THEN [value |-> transformed.value, count |-> 1, error |-> "none"]
                ELSE [value |-> value, count |-> 0, error |-> "none"] :
             transformed \in {Transformation(pass, variables, value)}}) :
     wanted \in {Predicate(pass, variables, value)}})

\* transform_tree: the level's own variables come from unpacking the keys of the
\* "variables" mapping, inherited ones are added beneath them; then every entry
\* but "variables" is visited in order.  An exception leaves the mutations made
\* before it in place.
RECURSIVE transform_tree(_, _, _)
RECURSIVE TransformEntries(_, _, _, _, _)
transform_tree(tree, pass, current_variables) ==
    IF ~Unpackable(tree.variables)
    THEN [tree |-> tree, count |-> 0, error |-> "ValueError"]
    ELSE TheOnly({
            [tree |-> [tree EXCEPT !.entries = walked.entries],
             count |-> walked.count, error |-> walked.error] :
         walked \in {TransformEntries(tree.entries, 1, pass,
                        Merge(Unpacked(tree.variables), current_variables), 0)}})

TransformEntries(entries, i, pass, variables, change_count) ==
    IF i > Len(entries)
    THEN [entries |-> entries, count |-> change_count, error |-> "none"]
    ELSE IF entries[i].is_tree
    THEN TheOnly({
            IF below.error # "none"
            THEN [entries |-> [entries EXCEPT ![i].tree = below.tree],
                  count |-> change_count, error |-> below.error]
            ELSE TransformEntries([entries EXCEPT ![i].tree = below.tree], i + 1, pass,
                                  variables, AddChanges(change_count, below.count)) :
         below \in {transform_tree(entries[i].tree, pass, variables)}})
    ELSE TheOnly({
            IF done.error # "none"
            THEN [entries |-> entries, count |-> change_count, error |-> done.error]
            ELSE TransformEntries([entries EXCEPT ![i].value = done.value], i + 1, pass,
                                  variables, change_count + done.count) :
         done \in {TransformScalar(entries[i].value, pass, variables)}})

\* loop_found inside transform_value: without an argument, or with None, it looks
\* at the latest value
loop_found(current_value, latest_value, tracked_values) ==
    LET looked_at == IF current_value = NoneV THEN latest_value ELSE current_value
    IN \E i \in 1..Len(tracked_values) : tracked_values[i] = looked_at

\* transform_value: `predicate(collection, key_or_index, latest_value)` passes
\* three arguments, which a predicate of four parameters (should_replace_variable,
\* is_expression) rejects with TypeError
RECURSIVE TransformValueLoop(_, _, _, _, _, _)
TransformValueLoop(pass, takes_three, variables, tracked_values, latest_value, count) ==
    IF ~takes_three
    THEN [value |-> latest_value, count |-> count, error |-> "TypeError"]
    ELSE TheOnly({
            IF wanted.error # "none"
            THEN [value |-> latest_value, count |-> count, error |-> wanted.error]
            ELSE IF ~(wanted.holds /\ ~loop_found(NoneV, latest_value, tracked_values))
            THEN [value |-> latest_value, count |-> count, error |-> "none"]
            ELSE TheOnly({
                    IF newly_transformed_value.error # "none"
                    THEN [value |-> latest_value, count |-> count,
                          error |-> newly_transformed_value.error]
                    ELSE IF loop_found(newly_transformed_value.value, latest_value,
                                       tracked_values)
                    THEN [value |-> latest_value, count |-> count,
                          error |-> "LoopError"]
                    ELSE TransformValueLoop(pass, takes_three, variables,
                            Append(tracked_values, newly_transformed_value.value),
                            newly_transformed_value.value, count + 1) :
                 newly_transformed_value \in
                    {Transformation(pass, variables, latest_value)}}) :
         wanted \in {Predicate(pass, variables, latest_value)}})

transform_value(value, pass, takes_three, variables) ==
    TransformValueLoop(pass, takes_three, variables, <<value>>, value, 0)

\* create_variables_for_use: the mapping under "variables" is copied with
\* .items(); the caller's variables are iterated without .items()
create_variables_for_use(data, variables) ==
    IF ~Unpackable(variables)
    THEN [variables |-> EmptyMap, error |-> "ValueError"]
    ELSE [variables |-> Merge(data.variables, Unpacked(variables)),
          error |-> "none"]

\* one top-level scalar of the search_for_and_apply_* loops: the variable pass
\* calls should_replace_variable(collection=, key_or_index=, encountered_value=),
\* without `variables`: TypeError; the expression pass hands a top-level
\* expression to transform_value
SearchScalar(value, pass, variables_to_use) ==
    IF pass = "variables"
    THEN [value |-> value, count |-> 0, error |-> "TypeError"]
    ELSE IF ~is_expression(value).holds
    THEN [value |-> value, count |-> 0, error |-> "none"]
    ELSE transform_value(value, pass, FALSE, variables_to_use)

\* the loop of search_for_and_apply_variables / search_for_and_apply_expressions
\* over the top-level entries
RECURSIVE SearchEntries(_, _, _, _, _)
SearchEntries(entries, i, pass, variables_to_use, change_count) ==
    IF i > Len(entries)
    THEN [entries |-> entries, count |-> change_count, error |-> "none"]
    ELSE IF entries[i].is_tree
    THEN TheOnly({
            IF below.error # "none"
            THEN [entries |-> [entries EXCEPT ![i].tree = below.tree],
                  count |-> change_count, error |-> below.error]
            ELSE SearchEntries([entries EXCEPT ![i].tree = below.tree], i + 1, pass,
                               variables_to_use, AddChanges(change_count, below.count)) :
         below \in {transform_tree(entries[i].tree, pass, variables_to_use)}})
    ELSE TheOnly({
            IF done.error # "none"
            THEN [entries |-> entries, count |-> change_count, error |-> done.error]
            ELSE SearchEntries([entries EXCEPT ![i].value = done.value], i + 1, pass,
                               variables_to_use, change_count + done.count) :
         done \in {SearchScalar(entries[i].value, pass, variables_to_use)}})

\* search_for_and_apply_variables (pass "variables") and
\* search_for_and_apply_expressions (pass "expressions")
search_for_and_apply(pass, data, variables) ==
    TheOnly({
        IF made.error # "none"
        THEN [data |-> data, count |-> 0, error |-> made.error]
        ELSE TheOnly({
                [data |-> [data EXCEPT !.entries = walked.entries],
                 count |-> walked.count, error |-> walked.error] :
             walked \in {SearchEntries(data.entries, 1, pass, made.variables, 0)}}) :
     made \in {create_variables_for_use(data, variables)}})

DEFAULT_PROCESS_ITERATION_COUNT == 5

\* the break of process_expressions, taken one change too early
ShouldBreakEarly(change_count) == change_count <= 1

\* `if change_count == 0: break`
ShouldBreak(change_count) == change_count = 0

\* one round of process_expressions: the variable pass, then the expression pass
\* on what the variable pass left
Round(data, variables) ==
    TheOnly({
        IF first.error # "none"
        THEN [data |-> first.data, variables |-> 0, expressions |-> 0,
              error |-> first.error]
        ELSE TheOnly({
                [data |-> second.data, variables |-> first.count,
                 expressions |-> second.count, error |-> second.error] :
             second \in {search_for_and_apply("expressions", first.data, variables)}}) :
     first \in {search_for_and_apply("variables", data, variables)}})

\* process_expressions: `for _ in range(iterations)`; `rounds` collects the change
\* counts of the rounds, total_change_count is the sum the function keeps
RECURSIVE ProcessRounds(_, _, _, _, _)
ProcessRounds(data, variables, remaining, rounds, total_change_count) ==
    IF remaining <= 0
    THEN [data |-> data, rounds |-> rounds, total |-> total_change_count,
          error |-> "none"]
    ELSE TheOnly({
            IF round.error # "none"
            THEN [data |-> round.data, rounds |-> rounds, total |-> 0,
                  error |-> round.error]
            ELSE IF ShouldBreak(round.variables + round.expressions)
            THEN [data |-> round.data,
                  rounds |-> Append(rounds, [variables |-> round.variables,
                                             expressions |-> round.expressions]),
                  total |-> total_change_count + round.variables + round.expressions,
                  error |-> "none"]
            ELSE ProcessRounds(round.data, variables, remaining - 1,
                    Append(rounds, [variables |-> round.variables,
                                    expressions |-> round.expressions]),
                    total_change_count + round.variables + round.expressions) :
         round \in {Round(data, variables)}})

\* the sum of the change counts of a sequence of rounds
RECURSIVE TotalChanges(_)
TotalChanges(rounds) ==
    IF rounds = <<>> THEN 0
    ELSE Head(rounds).variables + Head(rounds).expressions + TotalChanges(Tail(rounds))

process_expressions(data, variables, iterations) ==
    ProcessRounds(data, variables, iterations, <<>>, 0)

(* The trees and variables the engine is run on *)

A == <<"a">>

B == <<"b">>

AB == <<"a", "b">>

\* values of tree entries: a number, "{{% a %}}", "{{% b %}}", "<% 'a' + 'b' %>",
\* "x{{% a %}}" and "{{% NULL %}}"
ValueChoices ==
    {IntV(1), StrV(<<Ref(A)>>), StrV(<<Ref(B)>>), StrV(<<Expr(A, B)>>),
     StrV(<<Chr("x"), Ref(A)>>), StrV(<<Ref(NULL)>>)}

\* values of variables: a number, "{{% a %}}", "{{% b %}}" and "<% 'b' + 'b' %>"
VariableValues == {IntV(1), StrV(<<Ref(A)>>), StrV(<<Ref(B)>>), StrV(<<Expr(B, B)>>)}

\* the "variables" mappings over the names a and b
VariableMaps ==
    UNION {[names -> VariableValues] : names \in SUBSET {A, B}}

\* the mappings nested under the key "n": entry "k", then possibly entry "m",
\* possibly with a "variables" mapping {"ab": 1} of their own
NestedTrees ==
    {[has_variables |-> own, variables |-> IF own THEN (AB :> IntV(1)) ELSE EmptyMap,
      entries |-> <<Scalar(<<"k">>, k)>> \o rest] :
        own \in BOOLEAN, k \in ValueChoices,
        rest \in {<<>>} \cup {<<Scalar(<<"m">>, m)>> : m \in ValueChoices}}

\* what the parent and the nested mapping define a shared name as: 1 or "x"
\* above, 2 or "y" below
OuterValues == {IntV(1), StrV(<<Chr("x")>>)}

InnerValues == {IntV(2), StrV(<<Chr("y")>>)}

\* the variables a caller passes next to the tree
CallerVariables == {(A :> IntV(1)), (AB :> IntV(1))}

NoExprCall == [op |-> "none", iterations |-> 0, status |-> "none", rounds |-> <<>>,
               total |-> 0, before |-> NoTree, repeats |-> FALSE,
               after_zero_round |-> FALSE]

InitExpr ==
    /\ expr_data = NoTree
    /\ expr_variables = EmptyMap
    /\ expr_call = NoExprCall
    /\ expr_calls = 0

TopLevel(variables, entries) ==
    [has_variables |-> variables # EmptyMap, variables |-> variables,
     entries |-> entries]

\* a tree {"variables": {...}, "n": {...}} and no variables from the caller
LoadNested(variables, nested) ==
    /\ expr_call.op = "none"
    /\ expr_data' = TopLevel(variables, <<Branch(<<"n">>, nested)>>)
    /\ expr_variables' = EmptyMap
    /\ expr_call' = [NoExprCall EXCEPT !.op = "load"]
    /\ UNCHANGED expr_calls

\* a tree {"variables": {...}, "k": value}
LoadScalar(variables, value) ==
    /\ expr_call.op = "none"
    /\ expr_data' = TopLevel(variables, <<Scalar(<<"k">>, value)>>)
    /\ expr_variables' = EmptyMap
    /\ expr_call' = [NoExprCall EXCEPT !.op = "load"]
    /\ UNCHANGED expr_calls

\* a tree {"variables": {...}, "n": {"k": value}} and variables from the caller
LoadWithCallerVariables(variables, value, caller_variables) ==
    /\ expr_call.op = "none"
    /\ expr_data' = TopLevel(variables,
                             <<Branch(<<"n">>, [NoTree EXCEPT
                                  !.entries = <<Scalar(<<"k">>, value)>>])>>)
    /\ expr_variables' = caller_variables
    /\ expr_call' = [NoExprCall EXCEPT !.op = "load"]
    /\ UNCHANGED expr_calls

\* a tree whose mapping "n" defines, under "variables", the name its parent
\* defines, next to a mapping "o" without definitions; both refer to the name:
\* {"variables": {name: outer}, "o": {"k": ref}, "n": {"variables": {name: inner}, "k": ref}}
ShadowedTree(name, outer, inner, nested_first) ==
    LET reference == StrV(<<Ref(name)>>)
        o == Branch(<<"o">>, [NoTree EXCEPT !.entries = <<Scalar(<<"k">>, reference)>>])
        n == Branch(<<"n">>, [has_variables |-> TRUE, variables |-> (name :> inner),
                              entries |-> <<Scalar(<<"k">>, reference)>>])
    IN TopLevel((name :> outer), IF nested_first THEN <<n, o>> ELSE <<o, n>>)

LoadShadowed(name, outer, inner, nested_first) ==
    /\ expr_call.op = "none"
    /\ expr_data' = ShadowedTree(name, outer, inner, nested_first)
    /\ expr_variables' = EmptyMap
    /\ expr_call' = [NoExprCall EXCEPT !.op = "load"]
    /\ UNCHANGED expr_calls

ZeroRoundFinish(call) ==
    /\ call.op = "process_expressions"
    /\ call.status = "returned"
    /\ call.rounds # <<>>
    /\ LET last == call.rounds[Len(call.rounds)]
       IN last.variables + last.expressions = 0

\* process_expressions(data, variables, iterations); iterations is None when
\* not given
ProcessExpressions(given, n) ==
    /\ expr_call.op # "none"
    /\ expr_calls < MaxExprCalls
    /\ expr_calls' = expr_calls + 1
    /\ \E iterations \in {IF given THEN n ELSE DEFAULT_PROCESS_ITERATION_COUNT} :
       \E done \in {process_expressions(expr_data, expr_variables, iterations)} :
          /\ expr_data' = done.data
          /\ expr_call' = [NoExprCall EXCEPT
                !.op = "process_expressions",
                !.iterations = iterations,
                !.status = IF done.error = "none" THEN "returned" ELSE done.error,
                !.rounds = done.rounds,
                !.total = done.total,
                !.before = expr_data,
                !.after_zero_round = ZeroRoundFinish(expr_call)]
    /\ UNCHANGED expr_variables

\* transform_value(collection=data, key_or_index=..., predicate, transformation,
\* variables) on a top-level scalar, with the predicate and transformation of one
\* pass; takes_three says the predicate given accepts the three arguments
\* transform_value calls it with
TransformValue(i, pass, takes_three) ==
    /\ expr_call.op # "none"
    /\ expr_calls < MaxExprCalls
    /\ i \in 1..Len(expr_data.entries)
    /\ ~expr_data.entries[i].is_tree
    /\ expr_calls' = expr_calls + 1
    /\ \E value \in {expr_data.entries[i].value}, variables \in {expr_data.variables} :
       \E done \in {transform_value(value, pass, takes_three, variables)},
          wanted \in {Predicate(pass, variables, value)} :
          /\ expr_data' = [expr_data EXCEPT !.entries[i].value = done.value]
          /\ expr_call' = [NoExprCall EXCEPT
                !.op = "transform_value",
                !.status = IF done.error = "none" THEN "returned" ELSE done.error,
                !.total = done.count,
                !.before = expr_data,
                !.repeats = /\ wanted.error = "none"
                            /\ wanted.holds
                            /\ Transformation(pass, variables, value).error = "none"
                            /\ Transformation(pass, variables, value).value = value]
    /\ UNCHANGED expr_variables

NextExpr ==
    \/ \E v \in VariableMaps, t \in NestedTrees : LoadNested(v, t) /\ UNCHANGED notExpr
    \/ \E v \in VariableMaps, x \in ValueChoices : LoadScalar(v, x) /\ UNCHANGED notExpr
    \/ \E v \in VariableMaps, x \in ValueChoices, c \in CallerVariables : LoadWithCallerVariables(v, x, c) /\ UNCHANGED notExpr
    \/ \E name \in {A, AB}, outer \in OuterValues, inner \in InnerValues, f \in BOOLEAN : LoadShadowed(name, outer, inner, f) /\ UNCHANGED notExpr
    \/ \E n \in 0..MaxIterations : ProcessExpressions(TRUE, n) /\ UNCHANGED notExpr
    \/ ProcessExpressions(FALSE, 0) /\ UNCHANGED notExpr
    \/ \E i \in 1..1, p \in {"variables", "expressions"}, t \in BOOLEAN : TransformValue(i, p, t) /\ UNCHANGED notExpr

----------------------------------------------------------------------------
(* Properties of the expression engine *)

\* C8: in transform_value, when applying the transformation yields a value that
\* was already seen in the invocation (the starting value included), a
\* loop-detection error is raised; "{{% a %}}" with a defined as "{{% a %}}" raises it.
C8_LoopErrorOnRepeatedValue ==
    (expr_call.op = "transform_value" /\ expr_call.repeats) =>
        expr_call.status = "LoopError"

\* C9: once process_expressions has returned after a round that changed nothing,
\* another process_expressions on the same tree with the same variables returns 0
\* and leaves the tree as it was.
C9_IdempotentAfterZeroRound ==
    (expr_call.op = "process_expressions" /\ expr_call.after_zero_round) =>
        /\ expr_call.status = "returned"
        /\ expr_call.total = 0
        /\ expr_data = expr_call.before

\* a second call after a first call that needed at least two rounds and changed
\* the tree
C9_Witness ==
    /\ expr_call.op = "process_expressions"
    /\ expr_call.after_zero_round
    /\ expr_calls = 2
    /\ expr_call.before # NoTree
    /\ \E i \in 1..Len(expr_call.before.entries[1].tree.entries) :
          expr_call.before.entries[1].tree.entries[i].value.t = "int"
    /\ expr_data.variables # EmptyMap

RoundCount(r) == r.variables + r.expressions

\* C10: process_expressions performs at most `iterations` rounds (5 when not
\* given), each a variable pass followed by an expression pass; it stops after
\* the first round that changes nothing and returns the sum of the rounds'
\* change counts.
C10_RoundsBoundedAndSummed ==
    (expr_call.op = "process_expressions" /\ expr_call.status = "returned") =>
        LET rounds == expr_call.rounds
        IN /\ Len(rounds) <= expr_call.iterations
           /\ \A i \in 1..(Len(rounds) - 1) : RoundCount(rounds[i]) > 0
           /\ Len(rounds) < expr_call.iterations =>
                 (rounds # <<>> /\ RoundCount(rounds[Len(rounds)]) = 0)
           /\ expr_call.total = TotalChanges(rounds)

\* the default of five rounds is used up by a tree that changes in every round
C10_Witness ==
    /\ expr_call.op = "process_expressions"
    /\ expr_call.status = "returned"
    /\ expr_call.iterations = DEFAULT_PROCESS_ITERATION_COUNT
    /\ Len(expr_call.rounds) = DEFAULT_PROCESS_ITERATION_COUNT
    /\ expr_call.total >= DEFAULT_PROCESS_ITERATION_COUNT

HasEntry(tree, key) == \E i \in 1..Len(tree.entries) : tree.entries[i].key = key

EntryOf(tree, key) ==
    tree.entries[CHOOSE i \in 1..Len(tree.entries) : tree.entries[i].key = key]

\* the names a tree defines and its mapping "n" defines again
Redefined(tree) ==
    IF HasEntry(tree, <<"n">>) /\ EntryOf(tree, <<"n">>).is_tree
    THEN DOMAIN tree.variables \cap DOMAIN EntryOf(tree, <<"n">>).tree.variables
    ELSE {}

\* the entry "k" of the mapping under `key` is a reference to `name`
RefersTo(tree, key, name) ==
    /\ HasEntry(tree, key)
    /\ EntryOf(tree, key).is_tree
    /\ HasEntry(EntryOf(tree, key).tree, <<"k">>)
    /\ EntryOf(EntryOf(tree, key).tree, <<"k">>).value = StrV(<<Ref(name)>>)

ResolvedTo(tree, key) == EntryOf(EntryOf(tree, key).tree, <<"k">>).value

\* C28: when a nested mapping defines, under "variables", a name its parent
\* defines too, process_expressions resolves a reference to the name inside the
\* nested mapping to the nested definition and a reference in a sibling mapping
\* to the parent's definition.
C28_NestedDefinitionShadows ==
    \A name \in Redefined(expr_call.before) :
        (/\ expr_call.op = "process_expressions"
         /\ expr_call.iterations > 0
         /\ RefersTo(expr_call.before, <<"n">>, name)
         /\ RefersTo(expr_call.before, <<"o">>, name))
        => /\ expr_call.status = "returned"
           /\ ResolvedTo(expr_data, <<"n">>) = EntryOf(expr_call.before, <<"n">>).tree.variables[name]
           /\ ResolvedTo(expr_data, <<"o">>) = expr_call.before.variables[name]

----------------------------------------------------------------------------
(* FiniteGroup / GroupMember (evaluations/utilities/group.py)              *)
(*                                                                          *)
(* A collection handed to FiniteGroup is a sequence of values.  A member is *)
(* the group it points into, its index, and how often its rollover and      *)
(* rollback handlers have been run.                                         *)

GroupValues == 1..MaxGroupValue

\* the collections of at most n values
RECURSIVE Collections(_)
Collections(n) ==
    IF n = 0 THEN {<<>>}
    ELSE Collections(n - 1) \cup
         {Append(c, v) : c \in {x \in Collections(n - 1) : Len(x) = n - 1},
                         v \in GroupValues}

\* `item in collection`
Contains(collection, item) == \E k \in 1..Len(collection) : collection[k] = item

Distinct(collection) ==
    \A j, k \in 1..Len(collection) : collection[j] = collection[k] => j = k

\* the loop of FiniteGroup.__init__: `for value in group: if value in group: raise`;
\* the test looks into the collection being read, not into the values kept so far
RECURSIVE AppendValues(_, _, _)
AppendValues(group, k, kept) ==
    IF k > Len(group)
    THEN [error |-> "none", group |-> kept]
    ELSE IF Contains(group, group[k])
    THEN [error |-> "Exception", group |-> <<>>]
    ELSE AppendValues(group, k + 1, Append(kept, group[k]))

\* FiniteGroup.__init__
FiniteGroup(group) ==
    IF Len(group) = 0
    THEN [error |-> "ValueError", group |-> <<>>]
    ELSE AppendValues(group, 1, <<>>)

final_index(group) == Len(group) - 1

\* FiniteGroup.absolute_index
absolute_index(group, index) == index % Len(group)

\* FiniteGroup.index_of: the index of the first equal value, 0-based; KeyError
\* when there is none
index_of(group, value_to_find) ==
    IF Contains(group, value_to_find)
    THEN [error |-> "none",
          index |-> (CHOOSE k \in 1..Len(group) :
                        /\ group[k] = value_to_find
                        /\ \A j \in 1..(k - 1) : group[j] # value_to_find) - 1]
    ELSE [error |-> "KeyError", index |-> 0]

\* FiniteGroup.raw_value
raw_value(group, index) == group[absolute_index(group, index) + 1]

\* GroupMember.__init__, reached through FiniteGroup.by_index
GroupMember(group, index) ==
    [group |-> group, index |-> absolute_index(group, index),
     rollovers |-> 0, rollbacks |-> 0]

NoMember == [group |-> <<>>, index |-> 0, rollovers |-> 0, rollbacks |-> 0]

\* the while loop of GroupMember.increment; __rollover runs every handler once
RECURSIVE IncrementLoop(_, _)
IncrementLoop(member, amount) ==
    IF amount <= 0 THEN member
    ELSE IncrementLoop(
            IF member.index + 1 > final_index(member.group)
            THEN [member EXCEPT !.index = 0, !.rollovers = @ + 1]
            ELSE [member EXCEPT !.index = @ + 1],
            amount - 1)

\* the while loop of GroupMember.decrement; __rollback runs every handler once
RECURSIVE DecrementLoop(_, _)
DecrementLoop(member, amount) ==
    IF amount <= 0 THEN member
    ELSE DecrementLoop(
            IF member.index - 1 < 0
            THEN [member EXCEPT !.index = final_index(member.group), !.rollbacks = @ + 1]
            ELSE [member EXCEPT !.index = @ - 1],
            amount - 1)

\* GroupMember.increment(amount); `given` is FALSE for increment()
increment(member, given, amount) ==
    IF ~given THEN IncrementLoop(member, 1)
    ELSE IF amount < 0 THEN DecrementLoop(member, -amount)
    ELSE IncrementLoop(member, amount)

\* GroupMember.decrement(amount); `given` is FALSE for decrement()
decrement(member, given, amount) ==
    IF ~given THEN DecrementLoop(member, 1)
    ELSE IF amount < 0 THEN IncrementLoop(member, -amount)
    ELSE DecrementLoop(member, amount)

NoGroupCall == [op |-> "none", values |-> <<>>, start |-> 0, given |-> FALSE,
                amount |-> 0, outcome |-> "none", member |-> NoMember]

InitGroup == group_call = NoGroupCall

\* FiniteGroup(name, values)
Construct(values) ==
    \E made \in {FiniteGroup(values)} :
        group_call' = [NoGroupCall EXCEPT
            !.op = "construct",
            !.values = values,
            !.outcome = IF made.error = "none" THEN "constructed" ELSE made.error]

\* the member a program gets from FiniteGroup(name, values).by_index(start), after
\* `shift` is applied to it
MemberCall(op, values, start, given, amount) ==
    \E made \in {FiniteGroup(values)} :
        group_call' = [NoGroupCall EXCEPT
            !.op = op,
            !.values = values,
            !.start = start,
            !.given = given,
            !.amount = amount,
            !.outcome = IF made.error = "none" THEN "returned" ELSE made.error,
            !.member = IF made.error # "none" THEN NoMember
                       ELSE IF op = "increment"
                       THEN increment(GroupMember(made.group, start), given, amount)
                       ELSE decrement(GroupMember(made.group, start), given, amount)]

\* FiniteGroup(name, values).by_index(start).increment(amount)
Increment(values, start, given, amount) ==
    MemberCall("increment", values, start, given, amount)

\* FiniteGroup(name, values).by_index(start).decrement(amount)
Decrement(values, start, given, amount) ==
    MemberCall("decrement", values, start, given, amount)

Shifts == (-MaxShift)..MaxShift

NextGroup ==
    \/ \E values \in Collections(MaxGroupLen) : Construct(values) /\ UNCHANGED notGroup
    \/ \E values \in Collections(MaxGroupLen), start \in 0..MaxGroupLen,
          given \in BOOLEAN, amount \in Shifts :
          /\ given \/ amount = 0
          /\ Increment(values, start, given, amount)
          /\ UNCHANGED notGroup
    \/ \E values \in Collections(MaxGroupLen), start \in 0..MaxGroupLen,
          given \in BOOLEAN, amount \in Shifts :
          /\ given \/ amount = 0
          /\ Decrement(values, start, given, amount)
          /\ UNCHANGED notGroup

----------------------------------------------------------------------------
(* Properties of the groups *)

\* the amount an increment or a decrement call moves by
Moved(call) == IF call.given THEN call.amount ELSE 1

\* C14: increment(n) on the member at index i of a group of length L leaves it at
\* index (i + n) mod L after floor((i + n) / L) runs of the rollover handlers, and
\* decrement(n) leaves it at (i - n) mod L after one run of the rollback handlers
\* per wrap below index 0.
C14_ShiftWrapsAndCountsHandlers ==
    (/\ group_call.op \in {"increment", "decrement"}
     /\ group_call.values # <<>>
     /\ Distinct(group_call.values)
     /\ Moved(group_call) >= 0) =>
        LET length == Len(group_call.values)
            i == group_call.start % length
            n == Moved(group_call)
        IN /\ group_call.outcome = "returned"
           /\ group_call.op = "increment" =>
                 /\ group_call.member.index = (i + n) % length
                 /\ group_call.member.rollovers = (i + n) \div length
                 /\ group_call.member.rollbacks = 0
           /\ group_call.op = "decrement" =>
                 /\ group_call.member.index = (i - n) % length
                 /\ group_call.member.rollbacks = -((i - n) \div length)
                 /\ group_call.member.rollovers = 0

\* C15: FiniteGroup is constructed from every non-empty collection of pairwise
\* distinct values and refuses a collection that holds a value twice.
C15_ConstructedIffDistinct ==
    group_call.op = "construct" /\ group_call.values # <<>> =>
        (group_call.outcome = "constructed" <=> Distinct(group_call.values))

----------------------------------------------------------------------------
(* RelativeDuration (evaluations/utilities/duration.py)                    *)
(*                                                                          *)
(* A number is an int or a float; the floats of the model are the multiples *)
(* of one half, so a number is kept as twice its value (`twice`) next to    *)
(* whether it is a float.  None as an argument behaves as the int 0.        *)

Whole(k) == [twice |-> 2 * k, float |-> FALSE]

Halves(twice) == [twice |-> twice, float |-> TRUE]

\* a + b
Plus(a, b) == [twice |-> a.twice + b.twice, float |-> a.float \/ b.float]

\* a * k for an int k
Times(a, k) == [twice |-> a.twice * k, float |-> a.float]

\* math.floor(a): always an int
Floor(a) == [twice |-> 2 * (a.twice \div 2), float |-> FALSE]

\* a != math.floor(a)
IsFractional(a) == a.twice % 2 # 0

\* a - math.floor(a) for a fractional a
Fraction(a) == [twice |-> a.twice % 2, float |-> TRUE]

\* round(a): an int, halves go to the even neighbour
RoundHalfEven(a) ==
    IF ~IsFractional(a) THEN [twice |-> a.twice, float |-> FALSE]
    ELSE IF (a.twice \div 2) % 2 = 0 THEN Whole(a.twice \div 2)
    ELSE Whole((a.twice \div 2) + 1)

\* divmod(a, k) for a positive int k: floats give floats
DivMod(a, k) ==
    [quotient  |-> [twice |-> 2 * (a.twice \div (2 * k)), float |-> a.float],
     remainder |-> [twice |-> a.twice % (2 * k), float |-> a.float]]

\* `a or 0`
OrZero(a) == IF a.twice = 0 THEN Whole(0) ELSE a

\* numpy.issubdtype(type(a), numpy.integer)
IsInteger(a) == ~a.float

Fields(years, months, days, hours, minutes, seconds) ==
    [years |-> years, months |-> months, days |-> days,
     hours |-> hours, minutes |-> minutes, seconds |-> seconds]

\* the fractional part of the years goes to the months
SpillYears(d) ==
    IF IsFractional(d.years)
    THEN [d EXCEPT !.months = Plus(@, Times(Fraction(d.years), 12)),
                   !.years = Floor(d.years)]
    ELSE d

\* the fractional part of the days goes to the hours
SpillDays(d) ==
    IF IsFractional(d.days)
    THEN [d EXCEPT !.hours = Plus(@, Times(Fraction(d.days), 24)),
                   !.days = Floor(d.days)]
    ELSE d

\* the fractional part of the hours goes to the minutes
SpillHours(d) ==
    IF IsFractional(d.hours)
    THEN [d EXCEPT !.minutes = Plus(@, Times(Fraction(d.hours), 60)),
                   !.hours = Floor(d.hours)]
    ELSE d

\* the fractional part of the minutes goes to the seconds
SpillMinutes(d) ==
    IF IsFractional(d.minutes)
    THEN [d EXCEPT !.seconds = Plus(@, Times(Fraction(d.minutes), 60)),
                   !.minutes = Floor(d.minutes)]
    ELSE d

\* self.__seconds = round(self.__seconds)
RoundSeconds(d) == [d EXCEPT !.seconds = RoundHalfEven(@)]

\* whole minutes leave the seconds
RollSeconds(d) ==
    [d EXCEPT !.seconds = DivMod(d.seconds, 60).remainder,
              !.minutes = Plus(@, DivMod(d.seconds, 60).quotient)]

\* whole hours leave the minutes
RollMinutes(d) ==
    [d EXCEPT !.minutes = DivMod(d.minutes, 60).remainder,
              !.hours = Plus(@, DivMod(d.minutes, 60).quotient)]

\* whole days leave the hours
RollHours(d) ==
    [d EXCEPT !.hours = DivMod(d.hours, 24).remainder,
              !.days = Plus(@, DivMod(d.hours, 24).quotient)]

\* thirty days become a month
RollDays(d) ==
    [d EXCEPT !.days = DivMod(d.days, 30).remainder,
              !.months = Plus(@, DivMod(d.days, 30).quotient)]

\* the days are kept as they are: a month has no fixed number of days
KeepDays(d) == d

\* whole years leave the months
RollMonths(d) ==
    [d EXCEPT !.months = DivMod(d.months, 12).remainder,
              !.years = Plus(@, DivMod(d.months, 12).quotient)]

\* RelativeDuration.__normalize: the statements in their order
normalize(fields) ==
    TheOnly({RollMonths(d9) : d9 \in
            {KeepDays(d8) : d8 \in
            {RollHours(d7) : d7 \in
            {RollMinutes(d6) : d6 \in
            {RollSeconds(d5) : d5 \in
            {RoundSeconds(d4) : d4 \in
            {SpillMinutes(d3) : d3 \in
            {SpillHours(d2) : d2 \in
            {SpillDays(d1) : d1 \in
            {SpillYears(fields)}}}}}}}}}})

\* RelativeDuration.__init__: years, months, days and minutes must be ints,
\* seconds an int or a float; hours are not looked at
RelativeDuration(years, months, days, hours, minutes, seconds) ==
    IF ~(IsInteger(years) /\ IsInteger(months) /\ IsInteger(days) /\ IsInteger(minutes))
    THEN [error |-> "TypeError", fields |-> Fields(Whole(0), Whole(0), Whole(0), Whole(0), Whole(0), Whole(0))]
    ELSE [error |-> "none",
          fields |-> normalize(Fields(OrZero(years), OrZero(months), OrZero(days),
                                      OrZero(hours), OrZero(minutes), OrZero(seconds)))]

\* RelativeDuration.total_months
total_months(d) == Plus(d.months, Times(d.years, 12))

\* RelativeDuration.total_seconds
total_seconds(d) ==
    Plus(Plus(Times(d.days, 24 * 60 * 60), Times(d.hours, 60 * 60)),
         Plus(Times(d.minutes, 60), d.seconds))

\* RelativeDuration.__eq__ between two durations
DurationEquals(a, b) ==
    /\ total_months(a).twice = total_months(b).twice
    /\ total_seconds(a).twice = total_seconds(b).twice

(* The text of a duration is a sequence of tokens: a designator letter or *)
(* the text of a number as an f-string prints it.                          *)

Letter(c) == [k |-> c, num |-> Whole(0)]

Number(a) == [k |-> "num", num |-> a]

\* `if value:` for a number
Truthy(a) == a.twice # 0

\* representation += f"{value}<designator>" when the value is not zero
Emit(text, value, designator) ==
    IF Truthy(value) THEN text \o <<Number(value), Letter(designator)>> ELSE text

\* representation += f"{self.days}" when the days are not zero
EmitDays(text, value) ==
    IF Truthy(value) THEN text \o <<Number(value)>> ELSE text

\* representation += "T" when there is a time part
EmitT(text, d) ==
    IF Truthy(d.hours) \/ Truthy(d.minutes) \/ Truthy(d.seconds)
    THEN Append(text, Letter("T")) ELSE text

\* RelativeDuration.__str__
DurationStr(d) ==
    IF ~Truthy(total_months(d)) /\ ~Truthy(total_seconds(d))
    THEN <<Letter("P"), Letter("T"), Number(Whole(0)), Letter("S")>>
    ELSE Emit(Emit(Emit(EmitT(EmitDays(Emit(Emit(<<Letter("P")>>,
            d.years, "Y"), d.months, "M"), d.days), d),
            d.hours, "H"), d.minutes, "M"), d.seconds, "S")

\* the text of a number is matched by \d+ when it is an int that is not negative,
\* and by \d+(\.\d+)? also when it is a float that is not negative
IsDigits(a, fraction_allowed) == a.twice >= 0 /\ (~a.float \/ fraction_allowed)

\* a group of DURATION_PATTERN at position `at`: (?P<name>\d+(?=designator))?
\* takes a number that is directly followed by its designator
GroupMatches(text, at, designator, fraction_allowed) ==
    /\ at + 1 <= Len(text)
    /\ text[at].k = "num"
    /\ IsDigits(text[at].num, fraction_allowed)
    /\ text[at + 1].k = designator

\* the position after the group and after the optional letter that follows it
AfterGroup(text, at, designator, fraction_allowed) ==
    IF GroupMatches(text, at, designator, fraction_allowed) THEN at + 2
    ELSE IF at <= Len(text) /\ text[at].k = designator THEN at + 1
    ELSE at

\* int(float(duration_match.group(name) or "0"))
GroupValue(text, at, designator, fraction_allowed) ==
    IF GroupMatches(text, at, designator, fraction_allowed)
    THEN Whole(text[at].num.twice \div 2)
    ELSE Whole(0)

\* the position after the optional "T"
AfterT(text, at) == IF at <= Len(text) /\ text[at].k = "T" THEN at + 1 ELSE at

\* DURATION_PATTERN.search: the match starts behind the first "P"; the groups are
\* tried from left to right, each from where the one before it ended
Positions(text) ==
    TheOnly({
    TheOnly({
    TheOnly({
    TheOnly({
        [years |-> 2, months |-> p_months, days |-> p_days, hours |-> p_hours,
         minutes |-> p_minutes, seconds |-> AfterGroup(text, p_minutes, "M", FALSE)] :
        p_minutes \in {AfterGroup(text, p_hours, "H", FALSE)}}) :
        p_hours \in {AfterT(text, AfterGroup(text, p_days, "D", FALSE))}}) :
        p_days \in {AfterGroup(text, p_months, "M", FALSE)}}) :
        p_months \in {AfterGroup(text, 2, "Y", FALSE)}})

\* RelativeDuration.from_string
from_string(text) ==
    TheOnly({RelativeDuration(
                GroupValue(text, at.years, "Y", FALSE),
                GroupValue(text, at.months, "M", FALSE),
                GroupValue(text, at.days, "D", FALSE),
                GroupValue(text, at.hours, "H", FALSE),
                GroupValue(text, at.minutes, "M", FALSE),
                GroupValue(text, at.seconds, "S", TRUE)) :
        at \in {Positions(text)}})

(* The duration object and the calls made on it *)

ZeroFields == Fields(Whole(0), Whole(0), Whole(0), Whole(0), Whole(0), Whole(0))

NoDuration == [made |-> FALSE, fields |-> ZeroFields]

NoDurationCall == [op |-> "none", outcome |-> "none", given |-> ZeroFields,
                   default |-> FALSE, quantity |-> Whole(0), before |-> ZeroFields,
                   text |-> <<>>, parsed |-> ZeroFields, equal |-> FALSE]

InitDuration ==
    /\ duration = NoDuration
    /\ duration_call = NoDurationCall
    /\ duration_calls = 0

\* the arguments the constructor is called with
YearChoices == {Whole(0), Whole(1)}

MonthChoices == {Whole(0), Whole(14), Whole(-1)}

DayChoices == {Whole(0), Whole(40), Whole(-1)}

HourChoices == {Whole(0), Whole(25), Halves(3)}

MinuteChoices == {Whole(0), Whole(61), Halves(3)}

SecondChoices == {Whole(0), Whole(125), Halves(1), Halves(181)}

\* the quantities the add_* methods are called with
QuantityChoices == {Whole(-1), Whole(70), Halves(1), Halves(2)}

\* RelativeDuration(years=..., months=..., days=..., hours=..., minutes=..., seconds=...)
NewDuration(years, months, days, hours, minutes, seconds) ==
    /\ ~duration.made
    /\ duration_call.op = "none"
    /\ \E made \in {RelativeDuration(years, months, days, hours, minutes, seconds)} :
          /\ duration' = IF made.error = "none"
                         THEN [made |-> TRUE, fields |-> made.fields]
                         ELSE NoDuration
          /\ duration_call' = [NoDurationCall EXCEPT
                !.op = "construct",
                !.outcome = IF made.error = "none" THEN "constructed" ELSE made.error,
                !.given = Fields(years, months, days, hours, minutes, seconds)]
    /\ UNCHANGED duration_calls

\* `if quantity is None: quantity = 1`
Quantity(given, quantity) == IF given THEN quantity ELSE Whole(1)

\* the body the add_* methods share: the quantity is added to one field, then
\* self.__normalize() runs
AddTo(op, given, quantity, added) ==
    /\ duration.made
    /\ duration_calls < MaxDurationCalls
    /\ given \/ quantity = Whole(0)
    /\ duration_calls' = duration_calls + 1
    /\ duration' = [duration EXCEPT !.fields = normalize(added)]
    /\ duration_call' = [NoDurationCall EXCEPT
          !.op = op, !.outcome = "returned", !.before = duration.fields,
          !.default = ~given, !.quantity = Quantity(given, quantity)]

add_year(given, quantity) ==
    AddTo("add_year", given, quantity,
          [duration.fields EXCEPT !.years = Plus(@, Quantity(given, quantity))])

add_month(given, quantity) ==
    AddTo("add_month", given, quantity,
          [duration.fields EXCEPT !.months = Plus(@, Quantity(given, quantity))])

add_day(given, quantity) ==
    AddTo("add_day", given, quantity,
          [duration.fields EXCEPT !.days = Plus(@, Quantity(given, quantity))])

add_minute(given, quantity) ==
    AddTo("add_minute", given, quantity,
          [duration.fields EXCEPT !.minutes = Plus(@, Quantity(given, quantity))])

add_second(given, quantity) ==
    AddTo("add_second", given, quantity,
          [duration.fields EXCEPT !.seconds = Plus(@, Quantity(given, quantity))])

\* RelativeDuration.from_string(str(d)) == d
RoundTrip ==
    /\ duration.made
    /\ duration_call.op # "round_trip"
    /\ \E text \in {DurationStr(duration.fields)} :
       \E parsed \in {from_string(text)} :
          duration_call' = [NoDurationCall EXCEPT
                !.op = "round_trip",
                !.outcome = IF parsed.error = "none" THEN "returned" ELSE parsed.error,
                !.text = text,
                !.parsed = parsed.fields,
                !.equal = parsed.error = "none"
                          /\ DurationEquals(parsed.fields, duration.fields)]
    /\ UNCHANGED <<duration, duration_calls>>

NextDuration ==
    \/ \E years \in YearChoices, months \in MonthChoices, days \in DayChoices,
          hours \in HourChoices, minutes \in MinuteChoices, seconds \in SecondChoices :
          NewDuration(years, months, days, hours, minutes, seconds) /\ UNCHANGED notDuration
    \/ \E given \in BOOLEAN, quantity \in QuantityChoices \cup {Whole(0)} :
          add_year(given, quantity) /\ UNCHANGED notDuration
    \/ \E given \in BOOLEAN, quantity \in QuantityChoices \cup {Whole(0)} :
          add_month(given, quantity) /\ UNCHANGED notDuration
    \/ \E given \in BOOLEAN, quantity \in QuantityChoices \cup {Whole(0)} :
          add_day(given, quantity) /\ UNCHANGED notDuration
    \/ \E given \in BOOLEAN, quantity \in QuantityChoices \cup {Whole(0)} :
          add_minute(given, quantity) /\ UNCHANGED notDuration
    \/ \E given \in BOOLEAN, quantity \in QuantityChoices \cup {Whole(0)} :
          add_second(given, quantity) /\ UNCHANGED notDuration
    \/ RoundTrip /\ UNCHANGED notDuration

----------------------------------------------------------------------------
(* Properties of RelativeDuration *)

\* 0 <= a < limit
Within(a, limit) == 0 <= a.twice /\ a.twice < 2 * limit

\* the text has a number or a designator for a field only when the field is not 0
OmitsZeroFields(text, d) ==
    Len(text) = 1
        + (IF Truthy(d.years) THEN 2 ELSE 0) + (IF Truthy(d.months) THEN 2 ELSE 0)
        + (IF Truthy(d.days) THEN 2 ELSE 0)
        + (IF Truthy(d.hours) \/ Truthy(d.minutes) \/ Truthy(d.seconds) THEN 1 ELSE 0)
        + (IF Truthy(d.hours) THEN 2 ELSE 0) + (IF Truthy(d.minutes) THEN 2 ELSE 0)
        + (IF Truthy(d.seconds) THEN 2 ELSE 0)

\* C16: parsing the text of a normalized duration gives an equal duration; the
\* text leaves out the fields that are zero and is "PT0S" for the zero duration.
C16_StrRoundTrips ==
    duration_call.op = "round_trip" =>
        /\ duration_call.equal
        /\ IF ~Truthy(total_months(duration.fields)) /\ ~Truthy(total_seconds(duration.fields))
           THEN duration_call.text = <<Letter("P"), Letter("T"), Number(Whole(0)), Letter("S")>>
           ELSE OmitsZeroFields(duration_call.text, duration.fields)

----------------------------------------------------------------------------
(* ClockworkDate (evaluations/utilities/date.py)                            *)
(*                                                                          *)
(* The module's body builds the groups of months, hours, minutes and        *)
(* seconds when it is imported; a date is a year, a month and four chained  *)
(* group members (day, hour, minute, second).  An argument that may be      *)
(* None is a record: given or not, and its value.                           *)

Arg(v) == [given |-> TRUE, value |-> v]

NoArg == [given |-> FALSE, value |-> 0]

\* range(from, to)
Range(from, to) == [k \in 1..(to - from) |-> from + k - 1]

\* calendar.monthrange(2020, number)[1] when leap, calendar.monthrange(2021, number)[1] otherwise
DaysInMonth(leap, number) ==
    IF number = 2 THEN (IF leap THEN 29 ELSE 28)
    ELSE IF number \in {4, 6, 9, 11} THEN 30
    ELSE 31

\* Month.__call__(year): the group of the days of the month, Month.leap_year when
\* year % 4 == 0 and Month.normal_year otherwise
MonthDays(number, year) == FiniteGroup(Range(1, DaysInMonth(year % 4 = 0, number) + 1))

\* MonthsOfYear.__init__: FiniteGroup("Months", [Month(number) for number in range(1, 13)]);
\* a month is its number
Months == FiniteGroup(Range(1, 13))

Hours == FiniteGroup(Range(0, 24))

Minutes == FiniteGroup(Range(0, 60))

Seconds == FiniteGroup(Range(0, 60))

\* the exception of the first statement that raises, "none" when none does
FirstError(results) ==
    IF \A k \in DOMAIN results : results[k].error = "none" THEN "none"
    ELSE results[CHOOSE k \in DOMAIN results :
                    /\ results[k].error # "none"
                    /\ \A j \in 1..(k - 1) : results[j].error = "none"].error

\* importing the module runs `Months = MonthsOfYear()`, `Hours = ...`, `Minutes = ...`,
\* `Seconds = ...`
ImportDate == FirstError(<<Months, Hours, Minutes, Seconds>>)

\* MonthsOfYear.__getitem__(index) for an integer: raw_value(index)
MonthAt(index) == raw_value(Months.group, index)

\* Year.__init__ / Year.__update_months: month(self.year) for every month of Months
Year(year) == FirstError([n \in 1..12 |-> MonthDays(MonthAt(n - 1), year)])

\* FiniteGroup.__call__(value=...): the member at index 0 for None, at index_of(value)
\* otherwise
MemberOf(group, value) ==
    IF ~value.given
    THEN [error |-> "none", member |-> GroupMember(group, 0)]
    ELSE TheOnly({[error |-> found.error, member |-> GroupMember(group, found.index)] :
                    found \in {index_of(group, value.value)}})

\* GroupMember.value
MemberValue(member) == raw_value(member.group, member.index)

\* `if _is_integer(x): adjustment, x = divmod(x, size) else: adjustment = 0`
Split(value, size) ==
    IF value.given
    THEN [adjustment |-> value.value \div size, value |-> Arg(value.value % size)]
    ELSE [adjustment |-> 0, value |-> NoArg]

\* `if adjustment != 0: increment(adjustment) if adjustment > 0 else decrement(abs(adjustment))`
Adjust(member, adjustment) ==
    IF adjustment > 0 THEN increment(member, TRUE, adjustment)
    ELSE IF adjustment < 0 THEN decrement(member, TRUE, -adjustment)
    ELSE member

\* __second_rolled_over, __minute_rolled_over, __hour_rolled_over and their rolled_back
\* counterparts: every rollover of the lower member is one increment() of the member
\* chained to it, every rollback one decrement()
Chained(member, lower) ==
    DecrementLoop(IncrementLoop(member, lower.rollovers), lower.rollbacks)

\* GroupMember.switch_group(new_group, new_index)
switch_group(member, new_group, given, new_index) ==
    [member EXCEPT !.group = new_group,
                   !.index = IF given THEN absolute_index(new_group, new_index)
                             ELSE IF @ > final_index(new_group) THEN final_index(new_group)
                             ELSE @]

\* ClockworkDate.__update_month(initial_day_index, current_day, index) on the year, the
\* month and the day member of a date
update_month(date, initial_day_index, index) ==
    TheOnly({ [date EXCEPT
                  !.month = MonthAt(index),
                  !.day = switch_group(date.day, days_in_month, TRUE,
                            IF initial_day_index <= final_index(days_in_month)
                            THEN initial_day_index
                            ELSE IF /\ MemberValue(date.day) = current_max
                                    /\ MemberValue(date.day) > days_in_month[Len(days_in_month)]
                            THEN final_index(days_in_month)
                            ELSE date.day.index)] :
              days_in_month \in {MonthDays(MonthAt(index), date.year).group},
              current_max \in {DaysInMonth(date.year % 4 = 0, date.month)} })

\* the while loop of ClockworkDate.__increment_month
RECURSIVE IncrementMonthLoop(_, _, _)
IncrementMonthLoop(date, initial_day_index, amount) ==
    IF amount <= 0 THEN date
    ELSE IncrementMonthLoop(
            IF date.month + 1 > 12
            THEN update_month([date EXCEPT !.year = @ + 1], initial_day_index, 1)
            ELSE update_month(date, initial_day_index, date.month + 1),
            initial_day_index, amount - 1)

\* the while loop of ClockworkDate.__decrement_month
RECURSIVE DecrementMonthLoop(_, _, _)
DecrementMonthLoop(date, initial_day_index, amount) ==
    IF amount <= 0 THEN date
    ELSE DecrementMonthLoop(
            IF date.month - 1 < 1
            THEN update_month([date EXCEPT !.year = @ - 1], initial_day_index, 12)
            ELSE update_month(date, initial_day_index, date.month - 1),
            initial_day_index, amount - 1)

\* ClockworkDate.__increment_month(current_day, amount = 0); `given` is FALSE when
\* the caller passes no amount
increment_month(date, given, amount) ==
    IncrementMonthLoop(date, date.day.index, IF given THEN amount ELSE 0)

\* ClockworkDate.__decrement_month(current_day, amount = 0)
decrement_month(date, given, amount) ==
    DecrementMonthLoop(date, date.day.index, IF given THEN amount ELSE 0)

\* GroupMember.increment on the day member, whose rollover handler is
\* __day_rolled_over: self.__increment_month(day), called without an amount
RECURSIVE IncrementDay(_, _)
IncrementDay(date, amount) ==
    IF amount <= 0 THEN date
    ELSE IncrementDay(
            IF date.day.index + 1 > final_index(date.day.group)
            THEN increment_month([date EXCEPT !.day.index = 0, !.day.rollovers = @ + 1],
                                 FALSE, 0)
            ELSE [date EXCEPT !.day.index = @ + 1],
            amount - 1)

\* GroupMember.decrement on the day member, whose rollback handler is
\* __day_rolled_back: self.__decrement_month(day), called without an amount
RECURSIVE DecrementDay(_, _)
DecrementDay(date, amount) ==
    IF amount <= 0 THEN date
    ELSE DecrementDay(
            IF date.day.index - 1 < 0
            THEN decrement_month([date EXCEPT !.day.index = final_index(date.day.group),
                                              !.day.rollbacks = @ + 1],
                                 FALSE, 0)
            ELSE [date EXCEPT !.day.index = @ - 1],
            amount - 1)

\* the day after the hour member's handlers (one increment() per rollover, one
\* decrement() per rollback) and the constructor's own adjustment of the day
AdjustDay(date, hour, adjustment) ==
    TheOnly({ IF adjustment > 0 THEN IncrementDay(carried, adjustment)
              ELSE IF adjustment < 0 THEN DecrementDay(carried, -adjustment)
              ELSE carried :
              carried \in {DecrementDay(IncrementDay(date, hour.rollovers), hour.rollbacks)} })

NoDate == [year |-> 0, month |-> 0, day |-> 0, hour |-> 0, minute |-> 0, second |-> 0]

\* the properties year, month, day, hour, minute and second of a date
DateOf(date, hour, minute, second) ==
    [year |-> date.year, month |-> date.month, day |-> MemberValue(date.day),
     hour |-> MemberValue(hour), minute |-> MemberValue(minute),
     second |-> MemberValue(second)]

\* the end of ClockworkDate.__init__: the four members are made and the adjustments
\* are applied to the seconds, the minutes, the hours and the days, in this order
ChainMembers(year, month, day, adjustment_days, hours, minutes, seconds) ==
    TheOnly({
      TheOnly({
        TheOnly({
          TheOnly({ [error |-> "none", date |-> DateOf(date, hour, minute, second)] :
                    date \in {AdjustDay([year |-> year, month |-> month, day |-> day],
                                        hour, adjustment_days)} }) :
          hour \in {Adjust(Chained(MemberOf(Hours.group, hours.value).member, minute),
                           hours.adjustment)} }) :
        minute \in {Adjust(Chained(MemberOf(Minutes.group, minutes.value).member, second),
                           minutes.adjustment)} }) :
      second \in {Adjust(MemberOf(Seconds.group, seconds.value).member,
                         seconds.adjustment)} })

\* ClockworkDate.__init__ from the month onwards: the days of the current month, the
\* day beyond its last day, the day member
PlaceDay(year, month, day, hour, minute, second) ==
    TheOnly({
      TheOnly({
        IF current_day.error # "none"
        THEN [error |-> current_day.error, date |-> NoDate]
        ELSE ChainMembers(year, month, current_day.member,
                          IF day.given /\ day.value > days[Len(days)]
                          THEN day.value - days[Len(days)] ELSE 0,
                          Split(hour, 24), Split(minute, 60), Split(second, 60)) :
        current_day \in {MemberOf(days, IF day.given /\ day.value > days[Len(days)]
                                        THEN Arg(days[Len(days)]) ELSE day)} }) :
      days \in {MonthDays(month, year).group} })

\* ClockworkDate.__init__(year, month, day, hour, minute, second); the year is given
ClockworkDateInit(year, month, day, hour, minute, second) ==
    TheOnly({
      IF Year(the_year) # "none"
      THEN [error |-> Year(the_year), date |-> NoDate]
      ELSE PlaceDay(the_year, MonthAt(IF month.given THEN month.value % 12 ELSE 1),
                    day, hour, minute, second) :
      the_year \in {year + (IF month.given THEN month.value \div 12 ELSE 0)} })

\* `from dmod.evaluations.utilities.date import ClockworkDate` followed by
\* ClockworkDate(year, month, day, hour, minute, second)
ClockworkDate(year, month, day, hour, minute, second) ==
    IF ImportDate # "none"
    THEN [error |-> ImportDate, date |-> NoDate]
    ELSE ClockworkDateInit(year, month, day, hour, minute, second)

\* a field of a duration whose fields are ints
Count(a) == a.twice \div 2

\* ClockworkDate.__add__(other) for a RelativeDuration
DateAdd(c, other) ==
    ClockworkDateInit(c.year + Count(other.years),
                      Arg(c.month + Count(other.months)),
                      Arg(c.day + Count(other.days)),
                      NoArg,
                      Arg(c.minute + Count(other.minutes)),
                      Arg(c.second + Count(other.seconds)))

\* ClockworkDate.__sub__(other) for a RelativeDuration
DateSub(c, other) ==
    ClockworkDateInit(c.year,
                      Arg(c.month - Count(total_months(other))),
                      Arg(c.day),
                      NoArg,
                      Arg(c.minute),
                      Arg(c.second - Count(total_seconds(other))))

\* ClockworkDate.__eq__
DateEquals(a, b) ==
    /\ a.year = b.year
    /\ a.month = b.month
    /\ a.day = b.day
    /\ a.hour = b.hour
    /\ a.minute = b.minute
    /\ a.second = b.second

(* In-place arithmetic: the date keeps its members, and the handlers chained *)
(* to a member run once for each of its rollovers and rollbacks              *)

\* a member before an operation: none of its handlers has run in it yet
Rested(member) == [member EXCEPT !.rollovers = 0, !.rollbacks = 0]

\* the year, the month and the four members of a date that was just constructed
MembersOf(c) ==
    [year |-> c.year, month |-> c.month,
     day |-> MemberOf(MonthDays(c.month, c.year).group, Arg(c.day)).member,
     hour |-> MemberOf(Hours.group, Arg(c.hour)).member,
     minute |-> MemberOf(Minutes.group, Arg(c.minute)).member,
     second |-> MemberOf(Seconds.group, Arg(c.second)).member]

\* the properties year, month, day, hour, minute and second of a date with members
PropertiesOf(live) == DateOf(live, live.hour, live.minute, live.second)

\* the year, the month and the day member, which the month operations work on
DayOf(live) == [year |-> live.year, month |-> live.month, day |-> Rested(live.day)]

\* ClockworkDate.__add_relative_duration(duration = other): the seconds, the minutes, the
\* hours and the days are incremented in this order, then the months, then the year
add_relative_duration(live, other) ==
    TheOnly({
      TheOnly({
        TheOnly({
          TheOnly({ [year |-> moved.year + Count(other.years), month |-> moved.month,
                     day |-> moved.day, hour |-> hour, minute |-> minute,
                     second |-> second] :
                    moved \in {increment_month(
                                  AdjustDay(DayOf(live), hour, Count(other.days)),
                                  TRUE, Count(other.months))} }) :
          hour \in {increment(Chained(Rested(live.hour), minute), TRUE,
                              Count(other.hours))} }) :
        minute \in {increment(Chained(Rested(live.minute), second), TRUE,
                              Count(other.minutes))} }) :
      second \in {increment(Rested(live.second), TRUE, Count(other.seconds))} })

\* ClockworkDate.__subtract_relative_duration(duration = other)
subtract_relative_duration(live, other) ==
    TheOnly({
      TheOnly({
        TheOnly({
          TheOnly({ [year |-> moved.year - Count(other.years), month |-> moved.month,
                     day |-> moved.day, hour |-> hour, minute |-> minute,
                     second |-> second] :
                    moved \in {decrement_month(
                                  AdjustDay(DayOf(live), hour, -Count(other.days)),
                                  TRUE, Count(other.months))} }) :
          hour \in {decrement(Chained(Rested(live.hour), minute), TRUE,
                              Count(other.hours))} }) :
        minute \in {decrement(Chained(Rested(live.minute), second), TRUE,
                              Count(other.minutes))} }) :
      second \in {decrement(Rested(live.second), TRUE, Count(other.seconds))} })

\* c += other (__iadd__) and c -= other (__isub__) for a RelativeDuration, where c
\* is the outcome of the call that made the date and keeps its members
InPlace(c, op, other) ==
    IF c.error # "none" THEN c
    ELSE [error |-> "none",
          date |-> IF op = "add" THEN add_relative_duration(c.date, other)
                   ELSE subtract_relative_duration(c.date, other)]

\* ClockworkDate(...) kept with its members
WithMembers(c) ==
    IF c.error # "none" THEN c ELSE [error |-> "none", date |-> MembersOf(c.date)]

\* the properties of the outcome of in-place operations
Shown(c) == IF c.error # "none" THEN NoDate ELSE PropertiesOf(c.date)

(* The calls made on dates *)

GivenDate(year, month, day, hour, minute, second) ==
    [year |-> year, month |-> month, day |-> day, hour |-> hour, minute |-> minute,
     second |-> second]

NoDateCall == [op |-> "none", outcome |-> "none",
               given |-> GivenDate(0, NoArg, NoArg, NoArg, NoArg, NoArg),
               duration |-> ZeroFields, made |-> NoDate, sum |-> NoDate,
               back |-> NoDate, equal |-> FALSE,
               minus |-> NoDate, in_place |-> NoDate, then |-> "none"]

InitDate == date_call = NoDateCall

\* the arguments the constructor is called with
DateYears == {2020, 2021}

DateMonths == {1, 2, 12}

DateDays == {1, 15, 31}

DateHours == {NoArg, Arg(13), Arg(36)}

DateMinutes == {Arg(0), Arg(61)}

DateSeconds == {Arg(0), Arg(125)}

\* the hours of a date a duration is added to
StartHours == {Arg(0), Arg(13)}

\* the durations added to a date: years, months, days, hours, minutes, seconds
DurationChoices ==
    {<<0, 0, 0, 0, 0, 0>>, <<0, 1, 0, 0, 0, 0>>, <<0, 2, 0, 0, 0, 0>>,
     <<1, 0, 0, 0, 0, 0>>, <<0, 13, 0, 0, 0, 0>>, <<0, 0, 3, 0, 0, 0>>,
     <<0, 0, 0, 5, 0, 0>>, <<0, 0, 0, 0, 30, 45>>}

\* RelativeDuration(years=..., months=..., days=..., hours=..., minutes=..., seconds=...)
DurationOf(d) ==
    RelativeDuration(Whole(d[1]), Whole(d[2]), Whole(d[3]), Whole(d[4]), Whole(d[5]),
                     Whole(d[6])).fields

\* c + other, where c is the outcome of constructing a date
Sum(c, other) == IF c.error # "none" THEN c ELSE DateAdd(c.date, other)

\* c - other, where c is the outcome of the call that made the date
Difference(c, other) == IF c.error # "none" THEN c ELSE DateSub(c.date, other)

\* ClockworkDate(year, month, day, hour, minute, second)
NewDate(year, month, day, hour, minute, second) ==
    \E made \in {ClockworkDate(year, month, day, hour, minute, second)} :
        date_call' = [NoDateCall EXCEPT
            !.op = "construct",
            !.given = GivenDate(year, month, day, hour, minute, second),
            !.outcome = IF made.error = "none" THEN "constructed" ELSE made.error,
            !.made = made.date]

\* ClockworkDate(year, month, day, hour) + RelativeDuration(...)
AddDuration(year, month, day, hour, other) ==
    \E c \in {ClockworkDate(year, Arg(month), Arg(day), hour, NoArg, NoArg)} :
        \E sum \in {Sum(c, DurationOf(other))} :
            date_call' = [NoDateCall EXCEPT
                !.op = "add",
                !.given = GivenDate(year, Arg(month), Arg(day), hour, NoArg, NoArg),
                !.duration = DurationOf(other),
                !.outcome = IF sum.error = "none" THEN "returned" ELSE sum.error,
                !.made = c.date,
                !.sum = sum.date]

\* c = ClockworkDate(year, month, day, hour); (c + d) - d == c
AddThenSubtract(year, month, day, hour, other) ==
    \E c \in {ClockworkDate(year, Arg(month), Arg(day), hour, NoArg, NoArg)} :
        \E sum \in {Sum(c, DurationOf(other))} :
            \E back \in {Difference(sum, DurationOf(other))} :
                date_call' = [NoDateCall EXCEPT
                    !.op = "add_subtract",
                    !.given = GivenDate(year, Arg(month), Arg(day), hour, NoArg, NoArg),
                    !.duration = DurationOf(other),
                    !.outcome = IF back.error = "none" THEN "returned" ELSE back.error,
                    !.made = c.date,
                    !.sum = sum.date,
                    !.back = back.date,
                    !.equal = back.error = "none" /\ DateEquals(back.date, c.date)]

\* c = ClockworkDate(year, month, day, hour); c + d and c - d next to `c += d` and
\* `c -= d`, each applied to a date made from the same arguments
BothWays(year, month, day, hour, op, other) ==
    \E c \in {ClockworkDate(year, Arg(month), Arg(day), hour, NoArg, NoArg)} :
        \E new \in {IF op = "add" THEN Sum(c, DurationOf(other))
                     ELSE Difference(c, DurationOf(other))},
           updated \in {InPlace(WithMembers(c), op, DurationOf(other))} :
            date_call' = [NoDateCall EXCEPT
                !.op = IF op = "add" THEN "add_both" ELSE "subtract_both",
                !.given = GivenDate(year, Arg(month), Arg(day), hour, NoArg, NoArg),
                !.duration = DurationOf(other),
                !.outcome = IF new.error # "none" THEN new.error
                            ELSE IF updated.error # "none" THEN updated.error
                            ELSE "returned",
                !.made = c.date,
                !.sum = IF op = "add" THEN new.date ELSE NoDate,
                !.minus = IF op = "add" THEN NoDate ELSE new.date,
                !.in_place = Shown(updated),
                !.equal = /\ new.error = "none"
                          /\ updated.error = "none"
                          /\ DateEquals(new.date, Shown(updated))]

\* the duration of the second operation of a sequence: one year
ThenDuration == DurationOf(<<1, 0, 0, 0, 0, 0>>)

\* c = ClockworkDate(year, month, day, 13); c += d; then c += P1Y or c -= P1Y
InPlaceTwice(year, month, day, other, then) ==
    \E c \in {ClockworkDate(year, Arg(month), Arg(day), Arg(13), NoArg, NoArg)} :
        \E updated \in {InPlace(InPlace(WithMembers(c), "add", DurationOf(other)),
                                 then, ThenDuration)} :
            date_call' = [NoDateCall EXCEPT
                !.op = "in_place",
                !.given = GivenDate(year, Arg(month), Arg(day), Arg(13), NoArg, NoArg),
                !.duration = DurationOf(other),
                !.then = then,
                !.outcome = IF updated.error = "none" THEN "returned" ELSE updated.error,
                !.made = c.date,
                !.in_place = Shown(updated)]

NextDate ==
    \/ \E year \in DateYears, month \in DateMonths, day \in DateDays,
          hour \in DateHours, minute \in DateMinutes, second \in DateSeconds :
          /\ NewDate(year, Arg(month), Arg(day), hour, minute, second)
          /\ UNCHANGED notDate
    \/ \E year \in DateYears, month \in DateMonths, day \in DateDays,
          hour \in StartHours, other \in DurationChoices :
          /\ AddDuration(year, month, day, hour, other)
          /\ UNCHANGED notDate
    \/ \E year \in DateYears, month \in DateMonths, day \in DateDays,
          hour \in StartHours, other \in DurationChoices :
          /\ AddThenSubtract(year, month, day, hour, other)
          /\ UNCHANGED notDate
    \/ \E year \in DateYears, month \in DateMonths, day \in DateDays,
          hour \in {Arg(13)}, op \in {"add", "subtract"}, other \in DurationChoices :
          /\ BothWays(year, month, day, hour, op, other)
          /\ UNCHANGED notDate
    \/ \E year \in DateYears, month \in DateMonths, day \in DateDays,
          other \in DurationChoices, then \in {"add", "subtract"} :
          /\ InPlaceTwice(year, month, day, other, then)
          /\ UNCHANGED notDate

(* Properties of dates *)

\* the value of an argument, 0 for the time parts left out and 1 for the month and day
ValueOr(arg, default) == IF arg.given THEN arg.value ELSE default

\* the date that lies `day - 1` days after the first day of the month
RECURSIVE CarryDays(_, _, _)
CarryDays(year, month, day) ==
    IF day <= DaysInMonth(year % 4 = 0, month)
    THEN [year |-> year, month |-> month, day |-> day]
    ELSE CarryDays(IF month = 12 THEN year + 1 ELSE year,
                   IF month = 12 THEN 1 ELSE month + 1,
                   day - DaysInMonth(year % 4 = 0, month))

\* the calendar date and time of day the given parts add up to, the excess of each
\* part carried into the next higher one
Carried(given) ==
    TheOnly({
      TheOnly({ [year |-> on.year, month |-> on.month, day |-> on.day,
                 hour |-> (total \div 3600) % 24, minute |-> (total \div 60) % 60,
                 second |-> total % 60] :
                on \in {CarryDays(given.year, ValueOr(given.month, 1),
                                  ValueOr(given.day, 1) + total \div 86400)} }) :
      total \in {ValueOr(given.hour, 0) * 3600 + ValueOr(given.minute, 0) * 60
                 + ValueOr(given.second, 0)} })

\* the month that lies `months` months after the month of the year
MonthAfter(year, month, months) ==
    [year |-> year + (month - 1 + months) \div 12, month |-> ((month - 1 + months) % 12) + 1]

\* the day of the month is one the month has
InCalendar(year, month, day) ==
    /\ month \in 1..12
    /\ day \in 1..DaysInMonth(year % 4 = 0, month)

\* the duration has a part of at most a day's size only
OnlyTimeParts(d) == d.years = Whole(0) /\ d.months = Whole(0)

\* the date is an instant of the calendar
RealInstant(date) ==
    /\ date.month \in 1..12
    /\ date.day \in 1..DaysInMonth(date.year % 4 = 0, date.month)
    /\ date.hour \in 0..23
    /\ date.minute \in 0..59
    /\ date.second \in 0..59

\* C36: the date returned by c + d equals the date that `c += d` leaves in a copy of
\* c, and the date returned by c - d equals the date that `c -= d` leaves in a copy.
C36_OperatorsMatchInPlace ==
    date_call.op \in {"add_both", "subtract_both"} =>
        /\ date_call.outcome = "returned"
        /\ date_call.equal

\* C37: after its construction and after any sequence of in-place additions and
\* subtractions a date is a real calendar instant: month in 1..12, day in 1..the
\* number of days of that month in that year, hour in 0..23, minute and second in
\* 0..59.
C37_AlwaysRealInstant ==
    /\ date_call.op = "construct" =>
          date_call.outcome = "constructed" /\ RealInstant(date_call.made)
    /\ date_call.op = "in_place" =>
          date_call.outcome = "returned" /\ RealInstant(date_call.in_place)

\* C11: (c + d) - d equals c for a duration d of days, hours, minutes and seconds,
\* and for a duration with months or years whenever c's day of the month exists in
\* the month that c + d lies in.
C11_AddThenSubtractReturns ==
    (/\ date_call.op = "add_subtract"
     /\ InCalendar(date_call.given.year, date_call.given.month.value,
                   date_call.given.day.value)
     /\ \/ OnlyTimeParts(date_call.duration)
        \/ LET to == MonthAfter(date_call.given.year, date_call.given.month.value,
                                Count(total_months(date_call.duration)))
           IN InCalendar(to.year, to.month, date_call.given.day.value)) =>
        /\ date_call.outcome = "returned"
        /\ date_call.equal

\* C12: adding months (and years) to a date keeps the day of the month when the
\* destination month has it and uses the destination month's last day otherwise;
\* 2020-01-31 plus one month is 2020-02-29 and plus two months is 2020-03-31.
C12_MonthsKeepOrClampDay ==
    (/\ date_call.op = "add"
     /\ InCalendar(date_call.given.year, date_call.given.month.value,
                   date_call.given.day.value)
     /\ date_call.duration.days = Whole(0)
     /\ total_seconds(date_call.duration) = Whole(0)) =>
        LET to == MonthAfter(date_call.given.year, date_call.given.month.value,
                             Count(total_months(date_call.duration)))
            last == DaysInMonth(to.year % 4 = 0, to.month)
        IN /\ date_call.outcome = "returned"
           /\ date_call.sum.year = to.year
           /\ date_call.sum.month = to.month
           /\ date_call.sum.day = IF date_call.given.day.value <= last
                                  THEN date_call.given.day.value ELSE last
           /\ date_call.sum.hour = date_call.given.hour.value

\* C13: a date constructed with an hour, minute, second or day beyond its range is the
\* date with the excess carried into the next higher unit, up to the month and the
\* year; 36 hours on the last day of a month is 12:00 on the first day of the next.
C13_OverflowCarriesUpward ==
    date_call.op = "construct" =>
        /\ date_call.outcome = "constructed"
        /\ date_call.made = Carried(date_call.given)

----------------------------------------------------------------------------
(* Signature and EventFunctionParameter (core/events/base_function.py)      *)
(*                                                                          *)
(* A parameter is its name, its kind and whether a call must supply it; a   *)
(* signature is the sequence of the parameters of a function, the first     *)
(* (event) parameter included.                                              *)

Param(name, kind, required) == [name |-> name, kind |-> kind, required |-> required]

\* EventFunctionParameter.is_args: the parameter is VAR_POSITIONAL
is_args(parameter) == parameter.kind = "args"

\* EventFunctionParameter.is_kwargs: the parameter is VAR_KEYWORD
is_kwargs(parameter) == parameter.kind = "kwargs"

\* EventFunctionParameter.positional_only
positional_only(parameter) == parameter.kind = "positional_only"

\* Signature.has_args
has_args(signature) == \E k \in 1..Len(signature) : is_args(signature[k])

\* Signature.has_kwargs
has_kwargs(signature) == \E k \in 1..Len(signature) : is_kwargs(signature[k])

\* Signature.keywords
keywords(signature) ==
    {signature[k].name : k \in {j \in 1..Len(signature) : ~positional_only(signature[j])}}

\* Signature.required_keywords
required_keywords(signature) ==
    {signature[k].name : k \in {j \in 1..Len(signature) :
                                    ~positional_only(signature[j]) /\ signature[j].required}}

\* a variant of is_universal that looks for *args and **kwargs anywhere
HasArgsAndKwargs(signature) == has_args(signature) /\ has_kwargs(signature)

\* Signature.is_universal
is_universal(signature) ==
    /\ Len(signature) = 2
    /\ is_args(signature[1])
    /\ is_kwargs(signature[2])

\* Signature.required_variable_count: the required parameters before the first one
\* that is not required
required_variable_count(signature) ==
    Cardinality({k \in 1..Len(signature) : \A j \in 1..k : signature[j].required})

\* Signature.complies_with
complies_with(self, expected_signature) ==
    IF is_universal(expected_signature) /\ ~is_universal(self) THEN FALSE
    ELSE IF is_universal(self) THEN TRUE
    ELSE IF ~has_args(self) /\ has_args(expected_signature) THEN FALSE
    ELSE IF ~has_kwargs(self) /\ has_kwargs(expected_signature) THEN FALSE
    ELSE IF /\ ~(keywords(self) \subseteq required_keywords(expected_signature))
            /\ ~has_kwargs(self)
    THEN FALSE
    ELSE IF /\ ~(\/ has_kwargs(self) \/ has_kwargs(expected_signature)
                 \/ has_args(self) \/ has_args(expected_signature))
            /\ required_variable_count(self) # required_variable_count(expected_signature)
    THEN FALSE
    ELSE TRUE

(* The signatures compliance is looked at for: functions written with the   *)
(* parameters below in Python's order                                        *)

FirstChoices == {<<>>, <<Param("evt", "normal", TRUE)>>, <<Param("event", "normal", TRUE)>>}

AChoices == {<<>>, <<Param("a", "normal", TRUE)>>, <<Param("a", "normal", FALSE)>>}

BChoices == {<<>>, <<Param("b", "normal", FALSE)>>}

ArgsChoices == {<<>>, <<Param("args", "args", FALSE)>>}

ValChoices == {<<>>, <<Param("val", "keyword_only", FALSE)>>}

KwargsChoices == {<<>>, <<Param("kwargs", "kwargs", FALSE)>>}

Signatures ==
    {first \o a \o b \o args \o val \o kwargs :
        first \in FirstChoices, a \in AChoices, b \in BChoices, args \in ArgsChoices,
        val \in ValChoices, kwargs \in KwargsChoices}

\* def f(*args, **kwargs)
Universal == <<Param("args", "args", FALSE), Param("kwargs", "kwargs", FALSE)>>

\* the docstring of complies_with: def f(a, b, c, d=9, *args, val=4, **kwargs)
DocumentedDeclared ==
    <<Param("a", "normal", TRUE), Param("b", "normal", TRUE), Param("c", "normal", TRUE),
      Param("d", "normal", FALSE), Param("args", "args", FALSE),
      Param("val", "keyword_only", FALSE), Param("kwargs", "kwargs", FALSE)>>

\* the docstring of complies_with: def j(a, b, c, d, *args, val=4, **kwargs)
DocumentedHandler ==
    <<Param("a", "normal", TRUE), Param("b", "normal", TRUE), Param("c", "normal", TRUE),
      Param("d", "normal", TRUE), Param("args", "args", FALSE),
      Param("val", "keyword_only", FALSE), Param("kwargs", "kwargs", FALSE)>>

\* the signatures compliance is checked between
ComparedSignatures == Signatures \cup {DocumentedDeclared, DocumentedHandler}

NoCompliance == [checked |-> FALSE, complies |-> FALSE]

InitSignature ==
    /\ signature_pair \in [handler : ComparedSignatures, expected : ComparedSignatures]
    /\ compliance = NoCompliance

\* handler_signature.complies_with(expected_signature)
CompliesWith ==
    /\ ~compliance.checked
    /\ compliance' = [checked |-> TRUE,
                      complies |-> complies_with(signature_pair.handler,
                                                 signature_pair.expected)]
    /\ UNCHANGED signature_pair

NextSignature == CompliesWith /\ UNCHANGED notSignature

(* Properties of signatures *)

\* C20: a handler signature that is exactly (*args, **kwargs) complies with every
\* declared signature, and when the declared signature is exactly (*args, **kwargs)
\* no other handler signature complies.
C20_UniversalCompliance ==
    compliance.checked =>
        /\ signature_pair.handler = Universal => compliance.complies
        /\ (signature_pair.expected = Universal /\ signature_pair.handler # Universal) =>
              ~compliance.complies

C20_Witness ==
    /\ compliance.checked
    /\ signature_pair.expected = Universal
    /\ has_args(signature_pair.handler)
    /\ has_kwargs(signature_pair.handler)
    /\ signature_pair.handler # Universal
    /\ ~compliance.complies

----------------------------------------------------------------------------
(* EventRouter.register_event, register_handler, trigger and fire with the  *)
(* signatures of the event and of its handlers (core/events/router.py).     *)
(* The router is made by EventRouter(); a handler is a plain function, given *)
(* by its signature, and every registration has a number.                    *)

\* the keyword arguments of a call: a function from names to values
NoKeywords == [name \in {} |-> 0]

\* the names of first parameters that contain 'evt'
EvtNames == {"evt"}

\* EventFunction.__init__: the first parameter must be able to take the event.  The
\* type of a parameter without annotation is a list, so the test that reads
\* parameters[0].type.lower() raises for a name without 'evt' in it
EventFunction(function) ==
    IF Len(function) = 0 THEN "TypeError"
    ELSE IF is_args(function[1]) THEN "none"
    ELSE IF is_kwargs(function[1]) THEN "TypeError"
    ELSE IF function[1].name \in EvtNames THEN "none"
    ELSE "AttributeError"

\* a variant of signature_matches that accepts every event function
AnyFunctionMatches(function, signature) == EventFunction(function) = "none"

\* EventFunctionGroup.signature_matches, and the `except` of add_function: a function
\* that cannot be made an EventFunction is invalid as well (allow_errors or True)
signature_matches(function, signature) ==
    /\ EventFunction(function) = "none"
    /\ complies_with(function, signature)

NoHandlerCall == [op |-> "none", outcome |-> "none", function |-> <<>>,
                  complied |-> FALSE, args |-> <<>>, kwargs |-> NoKeywords,
                  passed_args |-> <<>>, passed_kwargs |-> NoKeywords,
                  event_args |-> <<>>, event_kwargs |-> NoKeywords,
                  invoked |-> <<>>]

InitHandlers ==
    /\ event_signature = [registered |-> FALSE, signature |-> <<>>]
    /\ event_functions = <<>>
    /\ rejected = {}
    /\ handler_call = NoHandlerCall
    /\ registrations = 0
    /\ triggers = 0

\* register_event("evt", signature)
RegisterEventSignature(signature) ==
    /\ ~event_signature.registered
    /\ event_signature' = [registered |-> TRUE, signature |-> signature]
    /\ handler_call' = [NoHandlerCall EXCEPT !.op = "register_event",
                                             !.outcome = "returned"]
    /\ UNCHANGED <<event_functions, rejected, registrations, triggers>>

\* register_handler("evt", function): an event that is not registered yet is
\* registered with the handler's own signature; add_function keeps the function or
\* names it invalid; invalid functions end the call with ValueError
RegisterHandlerFunction(function) ==
    /\ registrations < MaxHandlers
    /\ registrations' = registrations + 1
    /\ \E signature \in {IF event_signature.registered THEN event_signature.signature
                         ELSE function} :
          /\ event_signature' = [registered |-> TRUE, signature |-> signature]
          /\ event_functions' =
                IF signature_matches(function, signature)
                THEN Append(event_functions,
                            [id |-> registrations + 1, signature |-> function])
                ELSE event_functions
          /\ rejected' = IF signature_matches(function, signature) THEN rejected
                         ELSE rejected \cup {registrations + 1}
          /\ handler_call' = [NoHandlerCall EXCEPT
                !.op = "register_handler",
                !.outcome = IF signature_matches(function, signature)
                            THEN "returned" ELSE "ValueError",
                !.function = function,
                !.complied = complies_with(function, signature)]
    /\ UNCHANGED triggers

\* the positions of the handlers of one call that add_function keeps
Compliant(handlers, signature) ==
    {k \in 1..Len(handlers) : signature_matches(handlers[k], signature)}

\* `for event_handler in handler: self.__events[event].add_function(...)`: the
\* functions appended to the group, in the order of the call
RECURSIVE AddFunctions(_, _, _, _)
AddFunctions(handlers, signature, first_id, k) ==
    IF k > Len(handlers) THEN <<>>
    ELSE (IF signature_matches(handlers[k], signature)
          THEN <<[id |-> first_id + k, signature |-> handlers[k]]>> ELSE <<>>)
         \o AddFunctions(handlers, signature, first_id, k + 1)

\* register_handler("evt", [function, ...]): an event that is not registered yet is
\* registered with the signature of the first handler; add_function is called for
\* every handler, appending the ones that match; then ValueError if any did not
RegisterHandlers(handlers) ==
    /\ Len(handlers) > 1
    /\ registrations + Len(handlers) <= MaxHandlers
    /\ registrations' = registrations + Len(handlers)
    /\ \E signature \in {IF event_signature.registered THEN event_signature.signature
                         ELSE handlers[1]} :
          /\ event_signature' = [registered |-> TRUE, signature |-> signature]
          /\ event_functions' =
                event_functions \o AddFunctions(handlers, signature, registrations, 1)
          /\ rejected' = rejected \cup
                {registrations + k : k \in (1..Len(handlers)) \ Compliant(handlers, signature)}
          /\ handler_call' = [NoHandlerCall EXCEPT
                !.op = "register_handlers",
                !.outcome = IF Compliant(handlers, signature) = 1..Len(handlers)
                            THEN "returned" ELSE "ValueError",
                !.function = handlers[1],
                !.complied = \A k \in 1..Len(handlers) :
                                 complies_with(handlers[k], signature)]
    /\ UNCHANGED triggers

\* the loop of __prepare_call over the parameters of the event's signature: a
\* positional argument becomes the keyword argument of the next parameter whose
\* name is not a keyword argument yet
RECURSIVE RemapLoop(_, _, _, _, _)
RemapLoop(signature, k, event_args, current_index, event_kwargs) ==
    IF k > Len(signature) \/ current_index >= Len(event_args)
    THEN [args |-> SubSeq(event_args, current_index + 1, Len(event_args)),
          kwargs |-> event_kwargs]
    ELSE IF signature[k].name \in DOMAIN event_kwargs
    THEN RemapLoop(signature, k + 1, event_args, current_index, event_kwargs)
    ELSE RemapLoop(signature, k + 1, event_args, current_index + 1,
                   event_kwargs @@ (signature[k].name :> event_args[current_index + 1]))

\* the body of __prepare_call(event_name, caller, *args, **kwargs): the event gets the
\* re-mapped arguments, the caller gets args and kwargs back as they came in;
\* Event(event_name=..., caller=..., *event_args, **event_kwargs) binds a positional
\* argument that is left to event_name a second time
prepare_call(args, kwargs) ==
    TheOnly({ [error |-> IF remapped.args # <<>> THEN "TypeError" ELSE "none",
               event_args |-> remapped.args, event_kwargs |-> remapped.kwargs,
               args |-> args, kwargs |-> kwargs] :
              remapped \in {IF args = <<>> THEN [args |-> args, kwargs |-> kwargs]
                            ELSE RemapLoop(event_signature.signature, 1, args, 0, kwargs)} })

\* self.__prepare_call(event_name=event_name, caller=caller, *args, **kwargs) as
\* trigger and fire write it: the first positional argument is bound to event_name,
\* which the keyword then names a second time
PrepareCall(args, kwargs) ==
    IF args # <<>>
    THEN [error |-> "TypeError", event_args |-> <<>>, event_kwargs |-> NoKeywords,
          args |-> <<>>, kwargs |-> NoKeywords]
    ELSE prepare_call(args, kwargs)

\* the registrations whose functions EventFunctionGroup.trigger and fire call, in order
Invoked == [k \in 1..Len(event_functions) |-> event_functions[k].id]

\* what trigger and fire have in common: an event that is not registered is dropped
\* (fail_on_missing_event is False), the call is prepared, and the group calls every
\* function with the event, args and kwargs
Dispatch(op, args, kwargs) ==
    /\ triggers < MaxCalls
    /\ triggers' = triggers + 1
    /\ \E prepared \in {PrepareCall(args, kwargs)} :
          handler_call' = [NoHandlerCall EXCEPT
              !.op = op,
              !.args = args,
              !.kwargs = kwargs,
              !.outcome = IF ~event_signature.registered THEN "dropped"
                          ELSE IF prepared.error # "none" THEN prepared.error
                          ELSE "returned",
              !.passed_args = IF event_signature.registered /\ prepared.error = "none"
                              THEN prepared.args ELSE <<>>,
              !.passed_kwargs = IF event_signature.registered /\ prepared.error = "none"
                                THEN prepared.kwargs ELSE NoKeywords,
              !.event_args = IF event_signature.registered /\ prepared.error = "none"
                             THEN prepared.event_args ELSE <<>>,
              !.event_kwargs = IF event_signature.registered /\ prepared.error = "none"
                               THEN prepared.event_kwargs ELSE NoKeywords,
              !.invoked = IF event_signature.registered /\ prepared.error = "none"
                          THEN Invoked ELSE <<>>]
    /\ UNCHANGED <<event_signature, event_functions, rejected, registrations>>

\* trigger("evt", caller, *args, **kwargs)
TriggerWith(args, kwargs) == Dispatch("trigger", args, kwargs)

\* await fire("evt", caller, *args, **kwargs); the handlers are plain functions, which
\* EventFunctionGroup.fire calls one after the other
FireWith(args, kwargs) == Dispatch("fire", args, kwargs)

\* the signatures events are registered with
DeclaredChoices ==
    {<<Param("event", "normal", TRUE), Param("a", "normal", TRUE),
       Param("b", "normal", FALSE), Param("args", "args", FALSE),
       Param("kwargs", "kwargs", FALSE)>>,
     Universal,
     <<Param("evt", "normal", TRUE), Param("a", "normal", TRUE)>>}

\* the functions registered as handlers
HandlerChoices ==
    {<<Param("event", "normal", TRUE), Param("kwargs", "kwargs", FALSE)>>,
     <<Param("evt", "normal", TRUE), Param("kwargs", "kwargs", FALSE)>>,
     Universal,
     <<Param("evt", "normal", TRUE), Param("args", "args", FALSE),
       Param("kwargs", "kwargs", FALSE)>>,
     <<Param("evt", "normal", TRUE), Param("a", "normal", TRUE)>>}

\* the lists of functions registered in one call
HandlerLists == UNION {[1..n -> HandlerChoices] : n \in 2..MaxHandlers}

\* the positional arguments of a call: at most MaxArgs times the value 5
PositionalChoices == UNION {[1..n -> {5}] : n \in 0..MaxArgs}

\* the keyword arguments of a call
KeywordChoices == {NoKeywords, "b" :> 7, ("a" :> 5) @@ ("b" :> 7)}

NextHandlers ==
    \/ \E signature \in DeclaredChoices :
          RegisterEventSignature(signature) /\ UNCHANGED notHandlers
    \/ \E function \in HandlerChoices :
          RegisterHandlerFunction(function) /\ UNCHANGED notHandlers
    \/ \E handlers \in HandlerLists :
          RegisterHandlers(handlers) /\ UNCHANGED notHandlers
    \/ \E args \in PositionalChoices, kwargs \in KeywordChoices :
          TriggerWith(args, kwargs) /\ UNCHANGED notHandlers
    \/ \E args \in PositionalChoices, kwargs \in KeywordChoices :
          FireWith(args, kwargs) /\ UNCHANGED notHandlers

(* Properties of compliance for event handlers *)

\* the positional parameters the handler requires and the declared signature has as
\* optional ones
RequiredButOptional(handler, expected) ==
    {handler[k].name : k \in {i \in 1..Len(handler) :
        /\ handler[i].kind = "normal"
        /\ handler[i].required
        /\ \E j \in 1..Len(expected) :
              /\ expected[j].name = handler[i].name
              /\ expected[j].kind = "normal"
              /\ ~expected[j].required}}

\* C33: a handler that requires a positional parameter which the declared signature
\* makes optional does not comply; j(a, b, c, d, *args, val=4, **kwargs) is rejected
\* against the declared f(a, b, c, d=9, *args, val=4, **kwargs).
C33_RequiredWhereOptionalRejected ==
    (/\ compliance.checked
     /\ RequiredButOptional(signature_pair.handler, signature_pair.expected) # {}) =>
        ~compliance.complies

\* C34: every signature of a function that can be made an event handler complies
\* with itself, which is what registering the handler for an event without a
\* declared signature asks for.
C34_ComplianceReflexive ==
    (/\ compliance.checked
     /\ signature_pair.handler = signature_pair.expected
     /\ EventFunction(signature_pair.handler) = "none") =>
        compliance.complies

(* Properties of the handlers of an event *)

\* C35: register_handler is all-or-nothing: when it is given several handlers and
\* raises because one of them does not comply, none of the handlers of that call has
\* been added to the event and no new event has been registered.
C35_RegistrationAllOrNothing ==
    [][(/\ registrations' # registrations
        /\ handler_call'.op = "register_handlers"
        /\ handler_call'.outcome = "ValueError") =>
          /\ event_functions' = event_functions
          /\ event_signature' = event_signature]_vars

\* the parameters of the declared signature that a positional argument can be named
\* after: those after the event parameter that are not *args or **kwargs
RECURSIVE NamedAfter(_, _)
NamedAfter(signature, k) ==
    IF k > Len(signature) THEN <<>>
    ELSE IF is_args(signature[k]) \/ is_kwargs(signature[k])
    THEN NamedAfter(signature, k + 1)
    ELSE <<signature[k]>> \o NamedAfter(signature, k + 1)

\* C18: trigger moves leading positional arguments into keyword arguments named after
\* the parameters of the declared signature wherever that keyword is not supplied yet,
\* and the handlers are invoked with the re-mapped arguments: with the declared
\* signature (event, a, b=1, *args, **kwargs), trigger("evt", caller, 5, b=7) calls
\* the handlers with the keyword arguments a=5 and b=7.
C18_PositionalsBecomeKeywords ==
    (/\ handler_call.op = "trigger"
     /\ event_signature.registered
     /\ handler_call.args # <<>>) =>
        LET remapped == RemapLoop(NamedAfter(event_signature.signature, 2), 1,
                                  handler_call.args, 0, handler_call.kwargs)
        IN /\ handler_call.outcome = "returned"
           /\ handler_call.invoked = Invoked
           /\ handler_call.passed_kwargs = remapped.kwargs
           /\ handler_call.passed_args = remapped.args

\* C19: register_handler raises an error whenever the handler's signature does not
\* comply with the signature declared for the event, and a handler that was turned
\* down is not among the handlers that a later trigger or fire invokes.
C19_NonCompliantHandlerRejected ==
    /\ (handler_call.op = "register_handler" /\ ~handler_call.complied) =>
          /\ handler_call.outcome = "ValueError"
          /\ registrations \in rejected
    /\ \A k \in 1..Len(event_functions) :
          /\ event_functions[k].id \notin rejected
          /\ complies_with(event_functions[k].signature, event_signature.signature)
    /\ \A k \in 1..Len(handler_call.invoked) : handler_call.invoked[k] \notin rejected

C19_Witness ==
    /\ handler_call.op \in {"trigger", "fire"}
    /\ handler_call.outcome = "returned"
    /\ rejected # {}
    /\ handler_call.invoked # <<>>

----------------------------------------------------------------------------
(* Scores (metrics/scoring.py): the per-threshold scores of one metric, kept *)
(* in a dict keyed by threshold.  The dict is modelled by the sequence of    *)
(* its values in key insertion order.  Threshold is defined outside these    *)
(* sources; two thresholds with the same name and value compare equal.       *)

Threshold(name, value, weight) == [name |-> name, value |-> value, weight |-> weight]

\* what Threshold.__eq__ and Threshold.__hash__ look at
ThresholdKey(threshold) == <<threshold.name, threshold.value>>

\* Threshold.default(): the "All" threshold of weight 1
DefaultThreshold == Threshold("All", 0, 1)

Score(metric, value, threshold) == [kind |-> "Score", metric |-> metric, value |-> value, threshold |-> threshold]

\* an object that is not a Score (None, a number, a dict)
NotAScore == [kind |-> "other", metric |-> "none", value |-> 0, threshold |-> DefaultThreshold]

\* `score.threshold in self.__results`
HasThreshold(results, threshold) ==
    \E k \in 1..Len(results) : ThresholdKey(results[k].threshold) = ThresholdKey(threshold)

\* `self.__results[score.threshold] = score`: a new key goes to the end, a key
\* that is already present keeps its place and gets the new score
SetResult(results, score) ==
    IF HasThreshold(results, score.threshold)
    THEN [k \in 1..Len(results) |->
             IF ThresholdKey(results[k].threshold) = ThresholdKey(score.threshold)
             THEN score ELSE results[k]]
    ELSE Append(results, score)

\* `{score.threshold: score for score in scores}`
RECURSIVE ResultsOf(_, _)
ResultsOf(results, scores) ==
    IF scores = <<>> THEN results
    ELSE ResultsOf(SetResult(results, Head(scores)), Tail(scores))

\* whether a list holds two scores with equal thresholds
Repeats(scores) ==
    \E i, j \in 1..Len(scores) :
        i < j /\ ThresholdKey(scores[i].threshold) = ThresholdKey(scores[j].threshold)

\* Scores.add: the outcome and the dict after the call
add(metric, results, score) ==
    IF score.kind # "Score" THEN [outcome |-> "TypeError", results |-> results]
    ELSE IF score.metric # metric THEN [outcome |-> "ValueError", results |-> results]
    ELSE IF HasThreshold(results, score.threshold)
         THEN [outcome |-> "ValueError", results |-> results]
    ELSE [outcome |-> "returned", results |-> SetResult(results, score)]

\* Scores.__setitem__(key, value): the type checks, then self.add(value)
setitem(metric, results, key_is_threshold, value) ==
    IF ~key_is_threshold THEN [outcome |-> "TypeError", results |-> results]
    ELSE IF value.kind # "Score" THEN [outcome |-> "TypeError", results |-> results]
    ELSE add(metric, results, value)

MaxScores == 2        \* longest score list given to the Scores constructor
MaxScoreOps == 2      \* add / item assignments on one Scores collection

ScoresMetric == "m1"

ThresholdChoices == {DefaultThreshold, Threshold("high", 5, 1), Threshold("high", 5, 2)}

ScoreValues == {1, 2}

OwnScores == {Score(ScoresMetric, v, t) : v \in ScoreValues, t \in ThresholdChoices}

ScoreChoices == OwnScores \cup {Score("m2", 1, DefaultThreshold), NotAScore}

ScoreLists == UNION {[1..n -> OwnScores] : n \in 0..MaxScores}

NoScoresCall == [op |-> "none", outcome |-> "none", duplicate |-> FALSE, before |-> <<>>]

InitScores ==
    /\ scores_made = FALSE
    /\ scores_results = <<>>
    /\ scores_call = NoScoresCall
    /\ score_ops = 0

\* Scores(metric, scores)
NewScores(scores) ==
    /\ ~scores_made
    /\ scores_made' = TRUE
    /\ scores_results' = ResultsOf(<<>>, scores)
    /\ scores_call' = [op |-> "init", outcome |-> "returned",
                       duplicate |-> Repeats(scores), before |-> <<>>]
    /\ UNCHANGED score_ops

\* scores.add(score)
AddScore(score) ==
    /\ scores_made
    /\ score_ops < MaxScoreOps
    /\ score_ops' = score_ops + 1
    /\ \E r \in {add(ScoresMetric, scores_results, score)} :
          /\ scores_results' = r.results
          /\ scores_call' = [op |-> "add", outcome |-> r.outcome,
                             duplicate |-> score.kind = "Score" /\ HasThreshold(scores_results, score.threshold),
                             before |-> scores_results]
    /\ UNCHANGED scores_made

\* scores[key] = score
SetScore(key_is_threshold, score) ==
    /\ scores_made
    /\ score_ops < MaxScoreOps
    /\ score_ops' = score_ops + 1
    /\ \E r \in {setitem(ScoresMetric, scores_results, key_is_threshold, score)} :
          /\ scores_results' = r.results
          /\ scores_call' = [op |-> "setitem", outcome |-> r.outcome,
                             duplicate |-> score.kind = "Score" /\ HasThreshold(scores_results, score.threshold),
                             before |-> scores_results]
    /\ UNCHANGED scores_made

NextScores ==
    \/ \E scores \in ScoreLists : NewScores(scores) /\ UNCHANGED notScores
    \/ \E score \in ScoreChoices : AddScore(score) /\ UNCHANGED notScores
    \/ \E k \in BOOLEAN, score \in ScoreChoices : SetScore(k, score) /\ UNCHANGED notScores

(* Properties of Scores *)

\* C21: a Scores collection never holds two scores for the same threshold and
\* never silently replaces one: every insertion of a score whose threshold is
\* already present (through add, item assignment or the score list given to
\* the constructor) fails with an error and leaves the existing scores unchanged.
C21_DuplicateThresholdFails ==
    /\ \A i, j \in 1..Len(scores_results) :
          i # j => ThresholdKey(scores_results[i].threshold) # ThresholdKey(scores_results[j].threshold)
    /\ scores_call.duplicate =>
          /\ scores_call.outcome \in {"ValueError", "TypeError"}
          /\ scores_results = scores_call.before

----------------------------------------------------------------------------
(* Metric.__call__ (metrics/scoring.py): one score per threshold, with a    *)
(* bootstrap interval for the larger filtered frames.  A frame is modelled   *)
(* by its number of rows and a threshold by the number of rows its selector  *)
(* keeps; the default threshold keeps every row.                             *)

MaxRows == 6          \* rows of the largest paired frame
MaxThresholds == 2    \* longest threshold list handed to a metric

NoInterval == "None"

\* `interval.tolist()` of the highest density interval: a list of two numbers
TwoElementInterval == "pair"

NaN == "nan"

\* Metric.generate_bootstrap_intervals for a filtered frame of `rows` rows
generate_bootstrap_intervals(rows) ==
    IF rows < 5 THEN NoInterval ELSE TwoElementInterval

\* the Score built in the loop of Metric.__call__ for the frame a threshold keeps
ThresholdScore(position, rows) ==
    [threshold |-> position,
     rows |-> rows,
     interval |-> IF rows > 3 THEN generate_bootstrap_intervals(rows) ELSE NoInterval,
     sample_size |-> IF rows = 0 THEN NaN ELSE rows]

\* `if not thresholds: thresholds = [Threshold.default()]`
ThresholdsOrDefault(pairs, thresholds) ==
    IF thresholds = <<>> THEN <<pairs>> ELSE thresholds

\* Metric.__call__: the scores, in threshold order
MetricCall(pairs, thresholds) ==
    [k \in 1..Len(ThresholdsOrDefault(pairs, thresholds)) |->
        ThresholdScore(k, ThresholdsOrDefault(pairs, thresholds)[k])]

MetricInputs ==
    {[pairs |-> p, thresholds |-> t] :
        p \in 0..MaxRows,
        t \in UNION {[1..n -> 0..MaxRows] : n \in 0..MaxThresholds}}

NoMetricCall == [called |-> FALSE, scores |-> <<>>]

MetricIdle ==
    /\ metric_input = [pairs |-> 0, thresholds |-> <<>>]
    /\ metric_scores = NoMetricCall

InitMetric ==
    /\ metric_input \in {i \in MetricInputs :
                            \A k \in 1..Len(i.thresholds) : i.thresholds[k] <= i.pairs}
    /\ metric_scores = NoMetricCall

\* metric(pairs, observed_value_label, predicted_value_label, thresholds)
CallMetric ==
    /\ ~metric_scores.called
    /\ metric_scores' = [called |-> TRUE,
                         scores |-> MetricCall(metric_input.pairs, metric_input.thresholds)]
    /\ UNCHANGED metric_input

NextMetric == CallMetric /\ UNCHANGED notMetric

(* Properties of Metric.__call__ *)

\* C25: a metric call produces a score carrying a two-element interval for
\* every threshold whose filtered frame has more than 3 rows, and a score
\* with no interval for every threshold whose filtered frame has 3 rows or
\* fewer.
C25_IntervalAboveThreeRows ==
    metric_scores.called =>
        /\ Len(metric_scores.scores) = Len(ThresholdsOrDefault(metric_input.pairs, metric_input.thresholds))
        /\ \A k \in 1..Len(metric_scores.scores) :
              /\ metric_scores.scores[k].rows > 3 => metric_scores.scores[k].interval = TwoElementInterval
              /\ metric_scores.scores[k].rows <= 3 => metric_scores.scores[k].interval = NoInterval
----------------------------------------------------------------------------
(* scale_value, Score.scaled_value, Scores.performance and                  *)
(* MetricResults.scaled_value (metrics/scoring.py).  Numbers are exact       *)
(* fractions; the infinite default bounds and the missing ideal value (nan)  *)
(* are values of their own.                                                  *)

MaxRaw == 2           \* raw values, bounds and ideal values range over -MaxRaw..MaxRaw
MaxWeight == 2        \* threshold and metric weights range over 1..MaxWeight

RECURSIVE Gcd(_, _)
Gcd(a, b) == IF b = 0 THEN a ELSE Gcd(b, a % b)

Abs(n) == IF n < 0 THEN -n ELSE n

\* the fraction n/d in lowest terms with a positive denominator
Ratio(n, d) ==
    [k |-> "num",
     n |-> (IF d < 0 THEN -n ELSE n) \div Gcd(Abs(n), Abs(d)),
     d |-> Abs(d) \div Gcd(Abs(n), Abs(d))]

Num(n) == [k |-> "num", n |-> n, d |-> 1]

PlusInfinity == [k |-> "inf", n |-> 0, d |-> 1]

MinusInfinity == [k |-> "-inf", n |-> 0, d |-> 1]

NotANumber == [k |-> "nan", n |-> 0, d |-> 1]

IsFinite(x) == x.k = "num"

Added(a, b) == Ratio(a.n * b.d + b.n * a.d, a.d * b.d)

Subtracted(a, b) == Ratio(a.n * b.d - b.n * a.d, a.d * b.d)

Multiplied(a, b) == Ratio(a.n * b.n, a.d * b.d)

Divided(a, b) == Ratio(a.n * b.d, a.d * b.n)

\* a < b for finite a and b
Less(a, b) == a.n * b.d < b.n * a.d

\* a < b where either side may be infinite (never nan)
Below(a, b) ==
    IF a.k = "inf" \/ b.k = "-inf" THEN FALSE
    ELSE IF a.k = "-inf" \/ b.k = "inf" THEN TRUE
    ELSE Less(a, b)

Smaller(a, b) == IF Less(b, a) THEN b ELSE a

Larger(a, b) == IF Less(a, b) THEN b ELSE a

\* Metric(weight, lower_bound, upper_bound, ideal_value)
Metric(weight, lower_bound, upper_bound, ideal_value) ==
    [weight |-> weight, lower_bound |-> lower_bound, upper_bound |-> upper_bound,
     ideal_value |-> ideal_value]

has_upper_bound(metric) == metric.upper_bound.k # "nan" /\ metric.upper_bound.k # "inf"

has_lower_bound(metric) == metric.lower_bound.k # "nan" /\ metric.lower_bound.k # "-inf"

has_ideal_value(metric) == metric.ideal_value.k = "num"

bounded(metric) == has_lower_bound(metric) \/ has_upper_bound(metric)

\* the branch of scale_value that sets rise and run: rise, and the two ends of run
Line(metric, raw) ==
    IF metric.ideal_value = metric.lower_bound
    THEN [rise |-> -1, to |-> metric.upper_bound, from |-> metric.lower_bound]
    ELSE IF metric.ideal_value = metric.upper_bound
    THEN [rise |-> 1, to |-> metric.upper_bound, from |-> metric.lower_bound]
    ELSE IF Below(metric.lower_bound, metric.ideal_value) /\ Below(metric.ideal_value, metric.upper_bound)
            /\ ~Less(metric.ideal_value, raw)
    THEN [rise |-> 1, to |-> metric.ideal_value, from |-> metric.lower_bound]
    ELSE IF Below(metric.lower_bound, metric.ideal_value) /\ Below(metric.ideal_value, metric.upper_bound)
            /\ Less(metric.ideal_value, raw)
    THEN [rise |-> -1, to |-> metric.upper_bound, from |-> metric.ideal_value]
    ELSE [rise |-> 0, to |-> Num(1), from |-> Num(0)]

\* `slope = rise / run`: a division by an infinite run gives 0
Slope(line) ==
    IF ~IsFinite(line.to) \/ ~IsFinite(line.from) THEN Num(0)
    ELSE Divided(Num(line.rise), Subtracted(line.to, line.from))

\* the value on the line, before it is cut to the bounds
OnLine(metric, raw, slope) ==
    Added(Multiplied(slope, raw), Subtracted(Num(1), Multiplied(slope, metric.ideal_value)))

\* `min(scaled_value, metric.upper_bound)` and then `max(scaled_value, metric.lower_bound)`
WithinBounds(metric, scaled_value) ==
    LET below == IF has_upper_bound(metric) THEN Smaller(scaled_value, metric.upper_bound)
                 ELSE scaled_value
    IN  IF has_lower_bound(metric) THEN Larger(below, metric.lower_bound) ELSE below

Returned(value) == [outcome |-> "returned", value |-> value]

Raised(error) == [outcome |-> error, value |-> NotANumber]

\* scale_value(metric, raw)
scale_value(metric, raw) ==
    IF raw.k = "nan" THEN Returned(NotANumber)
    ELSE IF ~has_ideal_value(metric) \/ ~bounded(metric) THEN Returned(raw)
    ELSE LET line == Line(metric, raw)
         IN  IF IsFinite(line.to) /\ IsFinite(line.from) /\ line.to = line.from
             THEN Raised("ZeroDivisionError")
             ELSE Returned(WithinBounds(metric, OnLine(metric, raw, Slope(line))))

\* `raw_scaled_value * self.__threshold.weight`
TimesWeight(scaled, weight) ==
    IF scaled.outcome # "returned" \/ scaled.value.k = "nan" THEN scaled
    ELSE Returned(Multiplied(scaled.value, Num(weight)))

\* Score.scaled_value of a score of `metric` with the given value and threshold weight
scaled_value(metric, value, weight) == TimesWeight(scale_value(metric, value), weight)

RECURSIVE WeightedSum(_, _)
WeightedSum(values, weights) ==
    IF values = <<>> THEN Num(0)
    ELSE Added(Multiplied(Head(values), Num(Head(weights))), WeightedSum(Tail(values), Tail(weights)))

RECURSIVE Total(_)
Total(weights) == IF weights = <<>> THEN 0 ELSE Head(weights) + Total(Tail(weights))

\* numpy.average(values, weights=weights) for finite values and positive weights
Average(values, weights) == Divided(WeightedSum(values, weights), Num(Total(weights)))

\* the average of values that were each computed by a call: an error of one
\* of the calls gets out, and a nan makes the average nan
AverageOf(computed, weights) ==
    IF \E k \in 1..Len(computed) : computed[k].outcome # "returned"
    THEN Raised("ZeroDivisionError")
    ELSE IF \E k \in 1..Len(computed) : computed[k].value.k = "nan"
    THEN Returned(NotANumber)
    ELSE Returned(Average([k \in 1..Len(computed) |-> computed[k].value], weights))

\* Scores.performance of a metric's scores, each given as [value, weight]
\* (the raw value and the weight of its threshold), all with a positive sample size
performance(metric, scores) ==
    AverageOf([k \in 1..Len(scores) |-> scaled_value(metric, scores[k].value, scores[k].weight)],
              [k \in 1..Len(scores) |-> scores[k].weight])

\* MetricResults.scaled_value of results given as a sequence of [metric, scores]
results_scaled_value(results) ==
    AverageOf([k \in 1..Len(results) |-> performance(results[k].metric, results[k].scores)],
              [k \in 1..Len(results) |-> results[k].metric.weight])

ScaleGrid == {Num(n) : n \in -MaxRaw..MaxRaw}

ScaleMetrics ==
    {Metric(w, l, u, i) :
        w \in 1..MaxWeight,
        l \in ScaleGrid \cup {MinusInfinity},
        u \in ScaleGrid \cup {PlusInfinity},
        i \in ScaleGrid \cup {NotANumber}}

\* a second metric in the same results: bounds 0 and 1, ideal 1, weight 1
OtherMetric == Metric(1, Num(0), Num(1), Num(1))

\* the results of the two metrics when the first one's raw result is raw
ResultsWith(input, raw) ==
    << [metric |-> input.metric,
        scores |-> <<[value |-> raw, weight |-> input.threshold_weight]>>],
       [metric |-> OtherMetric,
        scores |-> <<[value |-> input.other, weight |-> 1]>>] >>

NoScaleCall ==
    [done |-> FALSE, scaled |-> Returned(NotANumber),
     overall |-> Returned(NotANumber), closer_overall |-> Returned(NotANumber)]

ScaleIdle ==
    /\ scale_input = [metric |-> OtherMetric, raw |-> Num(0), closer |-> Num(0),
                      threshold_weight |-> 1, other |-> Num(0)]
    /\ scale_call = NoScaleCall

InitScale ==
    /\ scale_input \in
          {[metric |-> m, raw |-> r, closer |-> c, threshold_weight |-> w, other |-> o] :
              m \in {x \in ScaleMetrics : ~Below(x.upper_bound, x.lower_bound)},
              r \in ScaleGrid, c \in ScaleGrid, w \in 1..MaxWeight, o \in {Num(0), Num(1)}}
    /\ scale_call = NoScaleCall

\* scale_value(metric, raw) and MetricResults.scaled_value for the raw result
\* and for the result that lies closer to the ideal value
ApplyScale ==
    /\ ~scale_call.done
    /\ scale_call' = [done |-> TRUE,
                      scaled |-> scale_value(scale_input.metric, scale_input.raw),
                      overall |-> results_scaled_value(ResultsWith(scale_input, scale_input.raw)),
                      closer_overall |-> results_scaled_value(ResultsWith(scale_input, scale_input.closer))]
    /\ UNCHANGED scale_input

NextScale == ApplyScale /\ UNCHANGED notScale

(* Properties of scaling *)

\* C26: for every bounded metric whose ideal value equals its upper bound,
\* scale_value maps a raw value equal to the upper bound to the upper bound
\* and a raw value equal to the lower bound to the lower bound.
C26_BoundsMapToBounds ==
    (/\ scale_call.done
     /\ bounded(scale_input.metric)
     /\ has_ideal_value(scale_input.metric)
     /\ scale_input.metric.ideal_value = scale_input.metric.upper_bound)
    => /\ scale_input.raw = scale_input.metric.upper_bound
             => scale_call.scaled = Returned(scale_input.metric.upper_bound)
       /\ scale_input.raw = scale_input.metric.lower_bound
             => scale_call.scaled = Returned(scale_input.metric.lower_bound)

\* the second value lies between the first one and the ideal value
Toward(ideal_value, raw, closer) ==
    \/ ~Less(closer, raw) /\ ~Less(ideal_value, closer)
    \/ ~Less(raw, closer) /\ ~Less(closer, ideal_value)

\* C27: holding all other scores, thresholds and weights fixed, moving one
\* metric's raw result closer to that metric's ideal value never lowers
\* MetricResults.scaled_value.
C27_TowardIdealNeverLowers ==
    (/\ scale_call.done
     /\ has_ideal_value(scale_input.metric)
     /\ Toward(scale_input.metric.ideal_value, scale_input.raw, scale_input.closer)
     /\ scale_call.overall.outcome = "returned"
     /\ scale_call.closer_overall.outcome = "returned")
    => ~Less(scale_call.closer_overall.value, scale_call.overall.value)
----------------------------------------------------------------------------
(* ScoringScheme (metrics/scoring.py) with the CommunicatorGroup it builds   *)
(* (metrics/communication.py) and the work distributors                      *)
(* (metrics/distributor.py).  A scheme is given a list of metrics and some   *)
(* communicators; a scoring run calls run_legacy_metric once per metric,     *)
(* one after the other (SynchronousWorkDistributor) or in threads whose      *)
(* results are gathered (ThreadedWorkDistributor).                           *)

MaxMetrics == 2          \* longest metric list of a scheme
MaxCommunicators == 2    \* most communicators supplied to a scheme

\* the metrics: "a" scores every frame with a number, "n" scores every frame
\* and every resample with nan
MetricNames == {"a", "n"}

CommunicatorPool ==
    {[id |-> "c1", verbosity |-> QUIET],
     [id |-> "c2", verbosity |-> LOUD],
     [id |-> "c2", verbosity |-> ALL]}

\* how the communicators reach ScoringScheme.__init__
SupplyKinds(given) ==
    IF given = <<>> THEN {"none"}
    ELSE IF Len(given) = 1 THEN {"single", "sequence", "mapping", "group"}
    ELSE {"sequence", "mapping", "group"}

\* `{communicator.communicator_id: communicator for communicator in communicators}`:
\* the positions of the communicators the dict holds, in key order
RECURSIVE KeyedById(_, _, _)
KeyedById(given, k, members) ==
    IF k > Len(given) THEN members
    ELSE IF \E j \in 1..Len(members) : given[members[j]].id = given[k].id
         THEN KeyedById(given, k + 1,
                        [j \in 1..Len(members) |->
                            IF given[members[j]].id = given[k].id THEN k ELSE members[j]])
         ELSE KeyedById(given, k + 1, Append(members, k))

\* CommunicatorGroup.__init__: the positions (in `given`) of the communicators
\* the new group holds
CommunicatorGroup(kind, given) ==
    IF kind = "group" THEN <<>>
    ELSE IF kind = "mapping" THEN [k \in 1..Len(given) |-> k]
    ELSE IF kind = "sequence" THEN KeyedById(given, 1, <<>>)
    ELSE IF kind = "single" THEN <<1>>
    ELSE <<>>

\* ScoringScheme.__init__
ScoringScheme(metrics, kind, given, rows) ==
    [metrics |-> metrics, kind |-> kind, given |-> given,
     communicators |-> CommunicatorGroup(kind, given), rows |-> rows]

Calling(metric) == [message |-> "Calling", metric |-> metric]

MetricEvent(metric) == [message |-> "metric", metric |-> metric]

\* Communicator.info(message, verbosity) on the communicator at one position
Told(given, heard, position, message, v) ==
    IF v # None /\ given[position].verbosity < v THEN heard
    ELSE [heard EXCEPT ![position] = Append(@, message)]

\* CommunicatorGroup.info: each communicator of the group in turn
RECURSIVE GroupInfo(_, _, _, _, _)
GroupInfo(given, members, heard, message, v) ==
    IF members = <<>> THEN heard
    ELSE GroupInfo(given, Tail(members), Told(given, heard, Head(members), message, v), message, v)

\* CommunicatorGroup.write(reason, data, verbosity): the communicators whose
\* verbosity is at least the given one write the message to their queue
RECURSIVE GroupWrite(_, _, _, _, _)
GroupWrite(given, members, heard, message, v) ==
    IF members = <<>> THEN heard
    ELSE GroupWrite(given, Tail(members),
                    IF v = None \/ given[Head(members)].verbosity >= v
                    THEN Told(given, heard, Head(members), message, None)
                    ELSE heard,
                    message, v)

\* CommunicatorGroup.send_all
send_all(given, members) == \E k \in 1..Len(members) : given[members[k]].verbosity = ALL

\* Score.to_dict: scaled_interval iterates the interval, and the array it
\* returns is then used as a condition
ScoreToDict(metric, score) ==
    IF score.interval = NoInterval THEN "TypeError"
    ELSE IF metric = "n" THEN "returned"
    ELSE "ValueError"

\* Scores.to_dict: the first score that fails decides
RECURSIVE ScoresToDict(_, _)
ScoresToDict(metric, scores) ==
    IF scores = <<>> THEN "returned"
    ELSE IF ScoreToDict(metric, Head(scores)) # "returned" THEN ScoreToDict(metric, Head(scores))
    ELSE ScoresToDict(metric, Tail(scores))

\* the first half of run_legacy_metric: the "Calling" message
AnnounceMetric(s, heard, metric) ==
    IF Len(s.communicators) > 0
    THEN GroupInfo(s.given, s.communicators, heard, Calling(metric), LOUD)
    ELSE heard

\* the second half of run_legacy_metric: the metric call and the message for
\* the communicators that expect all data
CompleteMetric(s, heard, metric) ==
    IF Len(s.communicators) > 0 /\ send_all(s.given, s.communicators)
    THEN IF ScoresToDict(metric, MetricCall(s.rows, <<>>)) # "returned"
         THEN [outcome |-> ScoresToDict(metric, MetricCall(s.rows, <<>>)), heard |-> heard]
         ELSE [outcome |-> "returned",
               heard |-> GroupWrite(s.given, s.communicators, heard, MetricEvent(metric), ALL)]
    ELSE [outcome |-> "returned", heard |-> heard]

\* run_legacy_metric
run_legacy_metric(s, heard, metric) == CompleteMetric(s, AnnounceMetric(s, heard, metric), metric)

\* SynchronousWorkDistributor.perform: one call after the other; an error ends it
RECURSIVE perform(_, _, _, _)
perform(s, heard, k, results) ==
    IF k > Len(s.metrics) THEN [outcome |-> "returned", heard |-> heard, results |-> results]
    ELSE LET call == run_legacy_metric(s, heard, s.metrics[k])
         IN  IF call.outcome # "returned"
             THEN [outcome |-> call.outcome, heard |-> call.heard, results |-> results]
             ELSE perform(s, call.heard, k + 1, Append(results, s.metrics[k]))

\* `for scores in metric_scores: results.add_scores(scores)`: the keys of the
\* MetricResults in insertion order, or the error of adding a second score for
\* a threshold of a metric that is already there (and no results are returned)
RECURSIVE add_scores(_, _)
add_scores(results, all_scores) ==
    IF all_scores = <<>> THEN [outcome |-> "returned", results |-> results]
    ELSE IF \E k \in 1..Len(results) : results[k] = Head(all_scores)
         THEN [outcome |-> "ValueError", results |-> <<>>]
         ELSE add_scores(Append(results, Head(all_scores)), Tail(all_scores))

\* the results of asyncio.as_completed: in the order the calls finished
as_completed(awaitables, order) == [k \in 1..Len(order) |-> awaitables[order[k]].metric]

\* the results of asyncio.gather: in the order of the awaitables
gather(awaitables, order) == [k \in 1..Len(awaitables) |-> awaitables[k].metric]

Schemes ==
    {ScoringScheme(m, kind, given, rows) :
        m \in UNION {[1..n -> MetricNames] : n \in 0..MaxMetrics},
        given \in UNION {[1..n -> CommunicatorPool] : n \in 0..MaxCommunicators},
        kind \in {"none", "single", "sequence", "mapping", "group"},
        rows \in {4, 5}}

NoRun == [op |-> "none", distributor |-> "none", outcome |-> "none", results |-> <<>>]

SchemeIdle ==
    /\ scheme = ScoringScheme(<<>>, "none", <<>>, 4)
    /\ received = <<>>
    /\ metric_tasks = <<>>
    /\ finished = <<>>
    /\ scheme_call = NoRun

InitScheme ==
    /\ scheme \in {s \in Schemes : s.kind \in SupplyKinds(s.given)}
    /\ received = [k \in 1..Len(scheme.given) |-> <<>>]
    /\ metric_tasks = <<>>
    /\ finished = <<>>
    /\ scheme_call = NoRun

\* scheme.score(pairs, observed, predicted, distributor=...)
score(distributor) ==
    /\ scheme_call.op = "none"
    /\ IF Len(scheme.metrics) = 0
       THEN /\ scheme_call' = [op |-> "score", distributor |-> distributor,
                              outcome |-> "ValueError", results |-> <<>>]
            /\ UNCHANGED received
       ELSE IF distributor = "threaded"
       THEN /\ scheme_call' = [op |-> "score", distributor |-> distributor,
                              outcome |-> "NotImplementedError", results |-> <<>>]
            /\ UNCHANGED received
       ELSE \E done \in {perform(scheme, received, 1, <<>>)} :
               /\ received' = done.heard
               /\ scheme_call' =
                     IF done.outcome # "returned"
                     THEN [op |-> "score", distributor |-> distributor,
                           outcome |-> done.outcome, results |-> <<>>]
                     ELSE [op |-> "score", distributor |-> distributor,
                           outcome |-> add_scores(<<>>, done.results).outcome,
                           results |-> add_scores(<<>>, done.results).results]
    /\ UNCHANGED <<scheme, metric_tasks, finished>>

\* await scheme.score_asynchronously(...): up to the point where the calls
\* have been handed to threads and are being gathered
score_asynchronously(distributor) ==
    /\ scheme_call.op = "none"
    /\ IF Len(scheme.metrics) = 0
       THEN /\ scheme_call' = [op |-> "score_asynchronously", distributor |-> distributor,
                              outcome |-> "ValueError", results |-> <<>>]
            /\ UNCHANGED metric_tasks
       ELSE IF distributor = "synchronous"
       THEN /\ scheme_call' = [op |-> "score_asynchronously", distributor |-> distributor,
                              outcome |-> "NotImplementedError", results |-> <<>>]
            /\ UNCHANGED metric_tasks
       ELSE /\ scheme_call' = [op |-> "score_asynchronously", distributor |-> distributor,
                              outcome |-> "gathering", results |-> <<>>]
            /\ metric_tasks' = [k \in 1..Len(scheme.metrics) |->
                                   [metric |-> scheme.metrics[k], state |-> "pending"]]
    /\ UNCHANGED <<scheme, received, finished>>

\* a thread starts run_legacy_metric and sends the "Calling" message
TaskStart(k) ==
    /\ metric_tasks[k].state = "pending"
    /\ metric_tasks' = [metric_tasks EXCEPT ![k].state = "called"]
    /\ received' = AnnounceMetric(scheme, received, metric_tasks[k].metric)
    /\ UNCHANGED <<scheme, finished, scheme_call>>

\* the thread's call of the metric and the rest of run_legacy_metric
TaskFinish(k) ==
    /\ metric_tasks[k].state = "called"
    /\ \E done \in {CompleteMetric(scheme, received, metric_tasks[k].metric)} :
          /\ received' = done.heard
          /\ metric_tasks' = [metric_tasks EXCEPT ![k].state = done.outcome]
    /\ finished' = Append(finished, k)
    /\ UNCHANGED <<scheme, scheme_call>>

\* a call that no thread has started yet is cancelled when the gathering has
\* ended with an error and the event loop is closed
TaskCancel(k) ==
    /\ metric_tasks[k].state = "pending"
    /\ scheme_call.outcome \notin {"gathering", "returned"}
    /\ metric_tasks' = [metric_tasks EXCEPT ![k].state = "cancelled"]
    /\ UNCHANGED <<scheme, received, finished, scheme_call>>

\* `await asyncio.gather(*async_results)` ends with all results, or with the
\* error of the first call that failed; then the scores are added in turn
GatherDone ==
    /\ scheme_call.outcome = "gathering"
    /\ IF \E k \in 1..Len(finished) : metric_tasks[finished[k]].state # "returned"
       THEN \E first \in {k \in 1..Len(finished) :
                            /\ metric_tasks[finished[k]].state # "returned"
                            /\ \A j \in 1..(k - 1) : metric_tasks[finished[j]].state = "returned"} :
               scheme_call' = [scheme_call EXCEPT !.outcome = metric_tasks[finished[first]].state]
       ELSE /\ Len(finished) = Len(metric_tasks)
            /\ \E added \in {add_scores(<<>>, gather(metric_tasks, finished))} :
                  scheme_call' = [scheme_call EXCEPT !.outcome = added.outcome,
                                                     !.results = added.results]
    /\ UNCHANGED <<scheme, received, metric_tasks, finished>>

Distributors == {"default", "synchronous", "threaded"}

NextScheme ==
    \/ \E distributor \in Distributors : score(distributor) /\ UNCHANGED notScheme
    \/ \E distributor \in Distributors : score_asynchronously(distributor) /\ UNCHANGED notScheme
    \/ \E k \in 1..Len(metric_tasks) : TaskStart(k) /\ UNCHANGED notScheme
    \/ \E k \in 1..Len(metric_tasks) : TaskFinish(k) /\ UNCHANGED notScheme
    \/ \E k \in 1..Len(metric_tasks) : TaskCancel(k) /\ UNCHANGED notScheme
    \/ GatherDone /\ UNCHANGED notScheme

(* Properties of ScoringScheme *)

\* C22: for both score and score_asynchronously, iterating the returned
\* MetricResults yields the metrics in the same order as the scheme's metric
\* list, whichever work distributor executed them and in whatever order the
\* individual metric calls finished.
C22_ResultsInMetricOrder ==
    scheme_call.outcome = "returned" => scheme_call.results = scheme.metrics

\* a gathered run of two metrics whose second call finished first
C22_Witness ==
    /\ scheme_call.op = "score_asynchronously"
    /\ scheme_call.outcome = "returned"
    /\ Len(scheme.metrics) = 2
    /\ finished = <<2, 1>>

\* every call of the run has ended
RunOver ==
    \/ scheme_call.op = "score"
    \/ /\ scheme_call.op = "score_asynchronously"
       /\ scheme_call.outcome # "gathering"
       /\ \A k \in 1..Len(metric_tasks) : metric_tasks[k].state \notin {"pending", "called"}

InSeq(seq, x) == Cardinality({k \in 1..Len(seq) : seq[k] = x})

\* C23: for every metric of a non-empty scoring scheme, one scoring run
\* delivers exactly one "Calling <metric name>" message to each communicator
\* that was supplied to the ScoringScheme and whose verbosity is at least LOUD,
\* also when the communicators were supplied as a CommunicatorGroup.
C23_OneCallingMessagePerMetric ==
    (/\ RunOver
     /\ scheme_call.outcome # "NotImplementedError"
     /\ Len(scheme.metrics) > 0)
    => \A c \in 1..Len(scheme.given) :
          scheme.given[c].verbosity >= LOUD =>
             \A m \in MetricNames :
                InSeq(received[c], Calling(m)) = InSeq(scheme.metrics, m)
----------------------------------------------------------------------------
(* The retry loop of QueueCommunicator.info() and error(), statement by     *)
(* statement, on a bounded queue (maximum_size > 0).  The caller holds the   *)
(* communicator's lock from the first statement of the loop to its last, so *)
(* no other process can put; read() takes no lock, so another process can   *)
(* take the oldest entry at any moment.  The queue is looked at through its  *)
(* size: full() is `size = capacity`, get() blocks while the size is 0.     *)

MaxCapacity == 2      \* largest maximum_size of the queue the loop runs on
MaxCounted == 11      \* failed attempts are counted up to this number

\* the caught exceptions so far, counted up to MaxCounted
CountFailure(failed) == IF failed < MaxCounted THEN failed + 1 ELSE failed

\* `self.__information.full()`
IsFull(size, capacity) == size >= capacity

NoAttempt == [pc |-> "idle", op |-> "none", put_try_count |-> 0, failed |-> 0]

\* the put() attempts the environment makes raise: none, the first, or the
\* first max_attempts
PutFailureChoices == {0, 1, max_attempts}

RetryIdle ==
    /\ attempt = NoAttempt
    /\ queue_size = 0
    /\ queue_env = [capacity |-> 1, removal_fails |-> FALSE, put_failures |-> 0]

\* a bounded queue filled to any level, full included; removal_fails: get()
\* raises whenever it is called (the queue's pipe can no longer be read)
InitRetry ==
    /\ attempt = NoAttempt
    /\ \E capacity \in 1..MaxCapacity :
          /\ queue_size \in 0..capacity
          /\ queue_env \in [capacity : {capacity}, removal_fails : BOOLEAN,
                            put_failures : PutFailureChoices]

Running == attempt.pc \in {"while_attempts", "while_full", "get", "put"}

Ended == attempt.pc \in {"returned", "raised"}

\* info(message) / error(message) passes the verbosity gate:
\* `put_try_count = 0`, `with self.__lock:`
StartCall(op) ==
    /\ attempt.pc = "idle"
    /\ attempt' = [pc |-> "while_attempts", op |-> op, put_try_count |-> 0, failed |-> 0]
    /\ UNCHANGED <<queue_size, queue_env>>

\* `while put_try_count < max_attempts:`; when the loop ends without a break
\* info() goes on to publish and returns, error() raises
TestAttempts ==
    /\ attempt.pc = "while_attempts"
    /\ attempt' = [attempt EXCEPT !.pc =
                      IF attempt.put_try_count < max_attempts THEN "while_full"
                      ELSE IF attempt.op = "info" THEN "returned" ELSE "raised"]
    /\ UNCHANGED <<queue_size, queue_env>>

\* `while self.__information.full():`
TestFull ==
    /\ attempt.pc = "while_full"
    /\ attempt' = [attempt EXCEPT !.pc =
                      IF IsFull(queue_size, queue_env.capacity) THEN "get" ELSE "put"]
    /\ UNCHANGED <<queue_size, queue_env>>

\* `try: last_message = self.__information.get() ... except BaseException: log`:
\* get() has no timeout and blocks while the queue is empty; an exception is
\* logged and the loop tests full() again, put_try_count is left alone
RemoveOldest ==
    /\ attempt.pc = "get"
    /\ IF queue_env.removal_fails
       THEN /\ attempt' = [attempt EXCEPT !.pc = "while_full",
                                          !.failed = CountFailure(attempt.failed)]
            /\ UNCHANGED queue_size
       ELSE /\ queue_size > 0
            /\ queue_size' = queue_size - 1
            /\ attempt' = [attempt EXCEPT !.pc = "while_full"]
    /\ UNCHANGED queue_env

\* `self.__information.put(message, block=True, timeout=...)` with its except and
\* else clauses: a put that raises (or times out on a full queue) is counted and
\* the call raises at max_attempts; a put that succeeds breaks out of the loop
PutMessage ==
    /\ attempt.pc = "put"
    /\ IF queue_env.put_failures > 0 \/ IsFull(queue_size, queue_env.capacity)
       THEN /\ attempt' = [attempt EXCEPT
                              !.put_try_count = attempt.put_try_count + 1,
                              !.failed = CountFailure(attempt.failed),
                              !.pc = IF ShouldRaise(attempt.put_try_count + 1)
                                     THEN "raised" ELSE "while_attempts"]
            /\ queue_env' = [queue_env EXCEPT !.put_failures =
                                IF @ > 0 THEN @ - 1 ELSE @]
            /\ UNCHANGED queue_size
       ELSE /\ queue_size' = queue_size + 1
            /\ attempt' = [attempt EXCEPT !.pc = "returned"]
            /\ UNCHANGED queue_env

\* another process calls read(): self.__information.get(block=True), no lock
\* (read_info() and read_errors() take none either)
PeerRead ==
    /\ queue_size > 0
    /\ queue_size' = queue_size - 1
    /\ UNCHANGED <<attempt, queue_env>>

\* the statements of the calling thread
CallSteps ==
    \/ TestAttempts /\ UNCHANGED notRetry
    \/ TestFull /\ UNCHANGED notRetry
    \/ RemoveOldest /\ UNCHANGED notRetry
    \/ PutMessage /\ UNCHANGED notRetry

NextRetry ==
    \/ \E op \in {"info", "error"} : StartCall(op) /\ UNCHANGED notRetry
    \/ TestAttempts /\ UNCHANGED notRetry
    \/ TestFull /\ UNCHANGED notRetry
    \/ RemoveOldest /\ UNCHANGED notRetry
    \/ PutMessage /\ UNCHANGED notRetry
    \/ PeerRead /\ UNCHANGED notRetry

(* Properties of the retry loop *)

\* C30: a call to info() or error() on a bounded queue always terminates, by
\* enqueuing the message or by raising, after at most 10 failed attempts, also
\* when removing the oldest entry fails and when another process empties the
\* queue between the fullness check and the removal.
C30_CallTerminates ==
    /\ [](attempt.failed <= max_attempts)
    /\ Running ~> Ended

----------------------------------------------------------------------------
(* EventRouter(allow_errors=...) with handlers that raise                    *)
(* (core/events/router.py, core/events/base_function.py).  A handler is a    *)
(* plain function with the parameters (evt, *args, **kwargs) that returns or *)
(* raises when it is called; the event "evt" is the only one.                *)

MaxFaulty == 3        \* handlers registered on the router

\* the values the allow_errors argument is given: None is the default
AllowErrorsChoices == {"None", "True", "False"}

\* Python's truth of None, True and False
IsTrue(value) == value = "True"

\* Python's `left or right`: the left operand when it is true, else the right one
PyOr(left, right) == IF IsTrue(left) THEN left ELSE right

\* EventRouter.__init__: `self.__allow_errors = allow_errors or True`
KeptAllowErrors(allow_errors) == PyOr(allow_errors, "True")

BehaviourChoices == {"returns", "raises"}

NoFaultyCall == [op |-> "none", outcome |-> "none", behaviours |-> <<>>,
                 invoked |-> <<>>, logged |-> <<>>]

FaultsIdle ==
    /\ fault_router = [given |-> "None", allow_errors |-> "True", functions |-> <<>>]
    /\ fault_call = NoFaultyCall

\* EventRouter(allow_errors=given)
InitFaults ==
    /\ \E given \in AllowErrorsChoices :
          fault_router = [given |-> given, allow_errors |-> KeptAllowErrors(given),
                          functions |-> <<>>]
    /\ fault_call = NoFaultyCall

\* register_handler("evt", function): add_function wraps the function in
\* EventFunction(function, allow_errors), which keeps bool(allow_errors)
RegisterFaulty(behaviour) ==
    /\ Len(fault_router.functions) < MaxFaulty
    /\ fault_router' = [fault_router EXCEPT !.functions =
          Append(@, [behaviour |-> behaviour,
                     allow_errors |-> IsTrue(fault_router.allow_errors)])]
    /\ fault_call' = [NoFaultyCall EXCEPT !.op = "register_handler",
                                          !.outcome = "returned"]

\* the loop of EventFunctionGroup.trigger over the functions from position k on, with
\* EventFunction.__call__: an exception of the function is logged when the
\* EventFunction allows errors and raised out of the loop when it does not
RECURSIVE CallEach(_, _, _)
CallEach(wrapped, k, done) ==
    IF k > Len(wrapped) THEN [done EXCEPT !.outcome = "returned"]
    ELSE IF wrapped[k].behaviour = "returns"
    THEN CallEach(wrapped, k + 1, [done EXCEPT !.invoked = Append(@, k)])
    ELSE IF wrapped[k].allow_errors
    THEN CallEach(wrapped, k + 1, [done EXCEPT !.invoked = Append(@, k),
                                                 !.logged = Append(@, k)])
    ELSE [done EXCEPT !.invoked = Append(@, k), !.outcome = "raised"]

\* what trigger and fire do with plain functions: the group calls them in order
CallFaulty(op) ==
    /\ fault_router.functions # <<>>
    /\ \E done \in {CallEach(fault_router.functions, 1, NoFaultyCall)} :
          fault_call' = [done EXCEPT
              !.op = op,
              !.behaviours = [k \in 1..Len(fault_router.functions) |->
                                 fault_router.functions[k].behaviour]]
    /\ UNCHANGED fault_router

\* trigger("evt", caller)
TriggerFaulty == CallFaulty("trigger")

\* await fire("evt", caller): `for function in synchronous_functions: function(...)`
FireFaulty == CallFaulty("fire")

NextFaults ==
    \/ \E behaviour \in BehaviourChoices : RegisterFaulty(behaviour) /\ UNCHANGED notFaults
    \/ TriggerFaulty /\ UNCHANGED notFaults
    \/ FireFaulty /\ UNCHANGED notFaults

(* Properties of handlers that raise *)

\* the handlers of the latest call that raise
Raisers == {k \in 1..Len(fault_call.behaviours) : fault_call.behaviours[k] = "raises"}

\* C32: a router constructed with allow_errors=False propagates the exception of a
\* handler to the caller of trigger; a router constructed with the default logs the
\* exception and still invokes the remaining handlers.
C32_StrictRouterPropagates ==
    (fault_call.op = "trigger" /\ Raisers # {}) =>
        /\ fault_router.given = "False" =>
              /\ fault_call.outcome = "raised"
              /\ fault_call.logged = <<>>
        /\ fault_router.given = "None" =>
              /\ fault_call.outcome = "returned"
              /\ fault_call.invoked = [k \in 1..Len(fault_call.behaviours) |-> k]
              /\ Len(fault_call.logged) = Cardinality(Raisers)

----------------------------------------------------------------------------
(* CommunicatorGroup.read_errors and read_info (metrics/communication.py).   *)
(* The group holds the communicators "a" and "b", in this order; a message   *)
(* is the number of the call that posted it.  One process uses the group.    *)

MaxPosted == 3        \* messages posted to the communicators of the group

GroupIds == <<"a", "b">>

EmptyQueues == [id \in {"a", "b"} |-> [errors |-> <<>>, information |-> <<>>]]

NoGroupRead == [op |-> "none", outcome |-> "none", ids |-> <<>>,
                before |-> EmptyQueues, result |-> {}]

ReadersIdle ==
    /\ group_queues = EmptyQueues
    /\ group_read = NoGroupRead
    /\ posted = 0

\* CommunicatorGroup([QueueCommunicator("a"), QueueCommunicator("b")])
InitReaders == ReadersIdle

\* the values of a list, as a set
Values(list) == {list[k] : k \in 1..Len(list)}

\* self.__communicators[id].error(message) / .info(message) on an unbounded queue
Post(id, queue) ==
    /\ posted < MaxPosted
    /\ posted' = posted + 1
    /\ group_queues' = [group_queues EXCEPT ![id][queue] = Append(@, posted + 1)]
    /\ group_read' = [NoGroupRead EXCEPT !.op = "post", !.outcome = "returned"]

\* `errors.union(other)`: Python's set.union returns a new set and leaves the set it
\* is called on as it was; the statement drops the value
UnionStatement(found, other) == found

\* QueueCommunicator.read_errors() / read_info(): every message of the queue, in
\* order; the queue is empty afterwards
AllRead(queues, id, queue) == [queues EXCEPT ![id][queue] = <<>>]

\* the loop `for communicator_id in communicator_ids:` of read_errors from position k
\* on: self.__communicators[communicator_id] raises KeyError for an unknown id
RECURSIVE ReadNamed(_, _, _, _)
ReadNamed(ids, k, queues, found) ==
    IF k > Len(ids) THEN [outcome |-> "returned", queues |-> queues, result |-> found]
    ELSE IF ids[k] \notin DOMAIN queues
    THEN [outcome |-> "KeyError", queues |-> queues, result |-> {}]
    ELSE ReadNamed(ids, k + 1, AllRead(queues, ids[k], "errors"),
                   UnionStatement(found, Values(queues[ids[k]].errors)))

\* the loops `for communicator in self.__communicators.values():` and
\* `for communicator in communicators:` over the communicators of the group from
\* position k on; `chosen` are the ids the loop is about
RECURSIVE ReadEach(_, _, _, _, _)
ReadEach(chosen, queue, k, queues, messages) ==
    IF k > Len(GroupIds) THEN [outcome |-> "returned", queues |-> queues, result |-> messages]
    ELSE IF GroupIds[k] \notin chosen
    THEN ReadEach(chosen, queue, k + 1, queues, messages)
    ELSE ReadEach(chosen, queue, k + 1, AllRead(queues, GroupIds[k], queue),
                  UnionStatement(messages, Values(queues[GroupIds[k]][queue])))

\* CommunicatorGroup.read_errors(*communicator_ids)
read_errors(ids) ==
    IF ids # <<>> THEN ReadNamed(ids, 1, group_queues, {})
    ELSE ReadEach(Values(GroupIds), "errors", 1, group_queues, {})

\* CommunicatorGroup.read_info(*communicator_ids): with ids, the communicators
\* whose key is among them
read_info(ids) ==
    ReadEach(IF ids # <<>> THEN Values(ids) ELSE Values(GroupIds), "information", 1,
             group_queues, {})

GroupReadErrors(ids) ==
    /\ \E read \in {read_errors(ids)} :
          /\ group_queues' = read.queues
          /\ group_read' = [op |-> "read_errors", outcome |-> read.outcome, ids |-> ids,
                            before |-> group_queues, result |-> read.result]
    /\ UNCHANGED posted

GroupReadInfo(ids) ==
    /\ \E read \in {read_info(ids)} :
          /\ group_queues' = read.queues
          /\ group_read' = [op |-> "read_info", outcome |-> read.outcome, ids |-> ids,
                            before |-> group_queues, result |-> read.result]
    /\ UNCHANGED posted

\* the ids a read is called with: none, one, both, and one the group does not have
IdChoices == {<<>>, <<"a">>, <<"b">>, <<"a", "b">>, <<"zz">>}

NextReaders ==
    \/ \E id \in {"a", "b"}, queue \in {"errors", "information"} :
          Post(id, queue) /\ UNCHANGED notReaders
    \/ \E ids \in IdChoices : GroupReadErrors(ids) /\ UNCHANGED notReaders
    \/ \E ids \in IdChoices : GroupReadInfo(ids) /\ UNCHANGED notReaders

(* Properties of the group's reads *)

\* the queue a read is about
QueueRead == IF group_read.op = "read_errors" THEN "errors" ELSE "information"

\* the communicators a read is about
Named == IF group_read.ids = <<>> THEN Values(GroupIds)
         ELSE Values(group_read.ids) \cap Values(GroupIds)

\* the messages a read took out of the queues
Taken ==
    UNION {Values(group_read.before[id][QueueRead]) \ Values(group_queues[id][QueueRead]) :
           id \in {"a", "b"}}

\* C38: read_errors() without ids returns every error of every communicator and with
\* ids the errors of the named communicators, so no message that the call took out of
\* a queue is missing from its result; read_info() does the same for information.
C38_ReadsReturnWhatTheyTake ==
    (group_read.op \in {"read_errors", "read_info"} /\ group_read.outcome = "returned") =>
        /\ group_read.result = UNION {Values(group_read.before[id][QueueRead]) : id \in Named}
        /\ Taken \subseteq group_read.result

----------------------------------------------------------------------------
(* ResourceManager (scheduler/resources/resource_manager.py): the three      *)
(* allocation strategies.  The class is abstract: allocate_resource and      *)
(* release_resources are declared with their contract only, so the manager   *)
(* below keeps the free assets of its nodes, grants what the contract says   *)
(* and may refuse one call of its choice, as a manager that shares its nodes *)
(* with other requests can.  Every node is active, ready and allocatable.    *)

MaxNodes == 2         \* resource nodes known to the manager
MaxNodeCpus == 2      \* free CPUs of a node
MaxNodeMemory == 2    \* free memory of a node
MaxCpus == 2          \* CPUs of a request
MaxMemory == 2        \* memory of a request
MaxFailing == 3       \* the allocate_resource calls of one request that may be the refused one

Groupings == {"BUNDLE", "SILO"}

NodeChoices == [cpu_count : 0..MaxNodeCpus, memory : 0..MaxNodeMemory]

PoolChoices == UNION {[1..n -> NodeChoices] : n \in 0..MaxNodes}

\* `None` where a ResourceAllocation is expected
NoAllocation == [id |-> 0, node |-> 0, cpu_count |-> 0, memory |-> 0]

NoAllocateCall == [op |-> "none", cpus |-> 0, memory |-> 0, asset_grouping |-> "BUNDLE",
                   failing |-> 0, result |-> "none", allocations |-> <<>>,
                   obtained |-> {}, released |-> {}]

AllocatorIdle ==
    /\ pool = <<>>
    /\ alloc_call = NoAllocateCall

\* a manager whose set_resources() has been given some nodes, or none
InitAllocator ==
    /\ pool \in PoolChoices
    /\ alloc_call = NoAllocateCall

Lesser(a, b) == IF a < b THEN a ELSE b

\* the manager at the start of a request: nothing obtained, nothing released
Entered(nodes) == [pool |-> nodes, obtained |-> {}, released |-> {}, calls |-> 0]

\* what a granted allocation does to the manager: the assets leave the node, and the
\* allocation is one this request obtained
Granted(st, alloc) ==
    [st EXCEPT !.pool[alloc.node].cpu_count = @ - alloc.cpu_count,
               !.pool[alloc.node].memory = @ - alloc.memory,
               !.obtained = @ \cup {alloc.id},
               !.calls = alloc.id]

\* self.allocate_resource(resource_id, requested_cpus, requested_memory, partial):
\* an allocation of what was asked for; of what the node still has when it has less
\* and `partial` is set; None when it has less and `partial` is not set, and None
\* for the call the manager refuses
allocate_resource(st, node, requested_cpus, requested_memory, partial, failing) ==
    IF st.calls + 1 = failing
    THEN [st |-> [st EXCEPT !.calls = @ + 1], alloc |-> NoAllocation]
    ELSE IF st.pool[node].cpu_count >= requested_cpus /\ st.pool[node].memory >= requested_memory
    THEN TheOnly({[st |-> Granted(st, alloc), alloc |-> alloc] :
                  alloc \in {[id |-> st.calls + 1, node |-> node,
                              cpu_count |-> requested_cpus, memory |-> requested_memory]}})
    ELSE IF partial
    THEN TheOnly({[st |-> Granted(st, alloc), alloc |-> alloc] :
                  alloc \in {[id |-> st.calls + 1, node |-> node,
                              cpu_count |-> Lesser(requested_cpus, st.pool[node].cpu_count),
                              memory |-> Lesser(requested_memory, st.pool[node].memory)]}})
    ELSE [st |-> [st EXCEPT !.calls = @ + 1], alloc |-> NoAllocation]

\* a release_resources that hands nothing back
release_nothing(st, allocated_resources) == st

\* self.release_resources(allocated_resources): the assets of each allocation go
\* back to its node
RECURSIVE release_resources(_, _)
release_resources(st, allocated_resources) ==
    IF allocated_resources = <<>> THEN st
    ELSE TheOnly({release_resources(
                      [st EXCEPT !.pool[alloc.node].cpu_count = @ + alloc.cpu_count,
                                 !.pool[alloc.node].memory = @ + alloc.memory,
                                 !.released = @ \cup {alloc.id}],
                      Tail(allocated_resources)) :
                  alloc \in {Head(allocated_resources)}})

\* what a strategy ends with: the manager, the kind of result and the list returned
Finish(st, result, allocations) == [st |-> st, result |-> result, allocations |-> allocations]

\* validate_allocation_parameters(cpus, memory)
ValidParameters(cpus, memory) == cpus > 0 /\ memory > 0

\* allocate_single_node, lines 198-212: `for _ in range(cpus)` on one node
RECURSIVE SiloOnNode(_, _, _, _, _, _)
SiloOnNode(st, node, cpus, mem, allocations, failing) ==
    IF Len(allocations) = cpus THEN [st |-> st, allocations |-> allocations]
    ELSE TheOnly({
            IF got.alloc = NoAllocation
            THEN [st |-> IF Len(allocations) > 0 THEN release_resources(got.st, allocations)
                         ELSE got.st,
                  allocations |-> allocations]
            ELSE SiloOnNode(got.st, node, cpus, mem, Append(allocations, got.alloc), failing) :
            got \in {allocate_resource(st, node, 1, mem, FALSE, failing)}})

\* allocate_single_node, lines 187-218: the loop over the usable nodes
RECURSIVE SingleNodeFrom(_, _, _)
SingleNodeFrom(st, node, request) ==
    IF node > Len(st.pool) THEN Finish(st, "[None]", <<>>)
    ELSE IF st.pool[node].cpu_count < request.cpus \/ st.pool[node].memory < request.memory
    THEN SingleNodeFrom(st, node + 1, request)
    ELSE IF request.asset_grouping = "BUNDLE"
    THEN TheOnly({
            IF got.alloc = NoAllocation THEN SingleNodeFrom(got.st, node + 1, request)
            ELSE Finish(got.st, "allocations", <<got.alloc>>) :
            got \in {allocate_resource(st, node, request.cpus, request.memory, FALSE,
                                       request.failing)}})
    ELSE TheOnly({
            IF Len(silo.allocations) = request.cpus
            THEN Finish(silo.st, "allocations", silo.allocations)
            ELSE SingleNodeFrom(silo.st, node + 1, request) :
            silo \in {SiloOnNode(st, node, request.cpus, request.memory \div request.cpus,
                                 <<>>, request.failing)}})

allocate_single_node(nodes, request) ==
    IF ~ValidParameters(request.cpus, request.memory)
    THEN Finish(Entered(nodes), "ValueError", <<>>)
    ELSE SingleNodeFrom(Entered(nodes), 1, request)

\* allocate_fill_nodes, lines 260-277: `while cpus_left >= 0` on one node; request_alloc
\* (lines 252-255) divides mem_need by cpus_need for SILO
RECURSIVE FillNode(_, _, _, _, _)
FillNode(st, node, request, left, allocations) ==
    IF left.cpus < 0 THEN [st |-> st, error |-> "none", left |-> left, allocations |-> allocations]
    ELSE IF request.asset_grouping # "BUNDLE" /\ left.cpus = 0
    THEN [st |-> st, error |-> "ZeroDivisionError", left |-> left, allocations |-> allocations]
    ELSE TheOnly({
            IF got.alloc = NoAllocation
            THEN [st |-> got.st, error |-> "none", left |-> left, allocations |-> allocations]
            ELSE IF got.alloc.cpu_count = 0 \/ got.alloc.memory = 0
            THEN [st |-> release_resources(got.st, <<got.alloc>>), error |-> "none",
                  left |-> left, allocations |-> allocations]
            ELSE IF ~(request.cpus >= got.alloc.cpu_count)
            THEN [st |-> got.st, error |-> "AssertionError", left |-> left,
                  allocations |-> allocations]
            ELSE FillNode(got.st, node, request,
                          [cpus |-> left.cpus - got.alloc.cpu_count,
                           mem |-> left.mem - got.alloc.memory],
                          Append(allocations, got.alloc)) :
            got \in {IF request.asset_grouping = "BUNDLE"
                     THEN allocate_resource(st, node, left.cpus, left.mem, TRUE, request.failing)
                     ELSE allocate_resource(st, node, 1, left.mem \div left.cpus, TRUE,
                                            request.failing)}})

\* allocate_fill_nodes, lines 259-287: the loop over the usable nodes
RECURSIVE FillFrom(_, _, _, _, _)
FillFrom(st, node, request, left, allocations) ==
    IF node > Len(st.pool)
    THEN Finish(release_resources(st, allocations), "[None]", <<>>)
    ELSE TheOnly({
            IF filled.error # "none" THEN Finish(filled.st, filled.error, <<>>)
            ELSE IF ~(filled.left.cpus >= 0) THEN Finish(filled.st, "AssertionError", <<>>)
            ELSE IF filled.left.cpus = 0 THEN Finish(filled.st, "allocations", filled.allocations)
            ELSE FillFrom(filled.st, node + 1, request, filled.left, filled.allocations) :
            filled \in {FillNode(st, node, request, left, allocations)}})

allocate_fill_nodes(nodes, request) ==
    IF ~ValidParameters(request.cpus, request.memory)
    THEN Finish(Entered(nodes), "ValueError", <<>>)
    ELSE FillFrom(Entered(nodes), 1, request,
                  [cpus |-> request.cpus, mem |-> request.memory], <<>>)

\* sum(cpus_per_node.values()), sum(memory_per_node.values())
RECURSIVE SumCpus(_)
SumCpus(shares) == IF shares = <<>> THEN 0 ELSE Head(shares).cpus + SumCpus(Tail(shares))

RECURSIVE SumMemory(_)
SumMemory(shares) == IF shares = <<>> THEN 0 ELSE Head(shares).memory + SumMemory(Tail(shares))

\* allocate_round_robin, lines 332-349: the share of each node; `part` holds
\* cpu_share, mem_share and the two remainders
RECURSIVE SharesFrom(_, _, _, _, _)
SharesFrom(nodes, node, cpus, part, shares) ==
    IF node > Len(nodes) \/ SumCpus(shares) = cpus THEN [failed |-> FALSE, shares |-> shares]
    ELSE IF nodes[node].cpu_count < part.cpu_share \/ nodes[node].memory < part.mem_share
    THEN IF cpus < Len(nodes) THEN SharesFrom(nodes, node + 1, cpus, part, shares)
         ELSE [failed |-> TRUE, shares |-> shares]
    ELSE TheOnly({
            SharesFrom(nodes, node + 1, cpus,
                       [part EXCEPT !.cpu_remainder = @ - more_cpus,
                                    !.mem_remainder = @ - more_mem],
                       Append(shares, [node |-> node, cpus |-> part.cpu_share + more_cpus,
                                       memory |-> part.mem_share + more_mem])) :
            more_cpus \in {IF nodes[node].cpu_count > part.cpu_share /\ part.cpu_remainder > 0
                           THEN 1 ELSE 0},
            more_mem \in {IF nodes[node].memory > part.mem_share /\ part.mem_remainder > 0
                          THEN 1 ELSE 0}})

\* allocate_round_robin, lines 358-365: `for i in range(alloc_count)` on one node
RECURSIVE RobinOnNode(_, _, _, _, _, _)
RobinOnNode(st, share, alloc_count, i, allocations, failing) ==
    IF i = alloc_count THEN [st |-> st, failed |-> FALSE, allocations |-> allocations]
    ELSE TheOnly({
            IF got.alloc = NoAllocation
            THEN [st |-> release_resources(got.st, allocations), failed |-> TRUE,
                  allocations |-> allocations]
            ELSE RobinOnNode(got.st, share, alloc_count, i + 1,
                             Append(allocations, got.alloc), failing) :
            got \in {allocate_resource(st, share.node, share.cpus \div alloc_count,
                                       share.memory \div alloc_count, FALSE, failing)}})

\* allocate_round_robin, lines 355-366: the loop over the nodes that have a share
RECURSIVE RobinFrom(_, _, _, _)
RobinFrom(st, shares, request, allocations) ==
    IF shares = <<>> THEN Finish(st, "allocations", allocations)
    ELSE TheOnly({
            IF done.failed THEN Finish(done.st, "[None]", <<>>)
            ELSE RobinFrom(done.st, Tail(shares), request, done.allocations) :
            done \in {RobinOnNode(st, Head(shares),
                                  IF request.asset_grouping = "BUNDLE" THEN 1
                                  ELSE Head(shares).cpus,
                                  0, allocations, request.failing)}})

allocate_round_robin(nodes, request) ==
    IF ~ValidParameters(request.cpus, request.memory)
    THEN Finish(Entered(nodes), "ValueError", <<>>)
    ELSE IF Lesser(request.cpus, Len(nodes)) = 0
    THEN Finish(Entered(nodes), "ZeroDivisionError", <<>>)
    ELSE TheOnly({
            IF found.failed THEN Finish(Entered(nodes), "[None]", <<>>)
            ELSE IF SumCpus(found.shares) # request.cpus
                    \/ SumMemory(found.shares) # request.memory
            THEN Finish(Entered(nodes), "[None]", <<>>)
            ELSE RobinFrom(Entered(nodes), found.shares, request, <<>>) :
            found \in {SharesFrom(nodes, 1, request.cpus,
                                  [cpu_share |-> request.cpus \div num_nodes,
                                   cpu_remainder |-> request.cpus % num_nodes,
                                   mem_share |-> request.memory \div num_nodes,
                                   mem_remainder |-> request.memory % num_nodes],
                                  <<>>) :
                       num_nodes \in {Lesser(request.cpus, Len(nodes))}}})

RequestChoices ==
    [cpus : 0..MaxCpus, memory : 1..MaxMemory, asset_grouping : Groupings,
     failing : 0..MaxFailing]

\* one call of a strategy: the manager afterwards and the record of the call
Allocate(op, request, ended) ==
    /\ pool' = ended.st.pool
    /\ alloc_call' = [op |-> op, cpus |-> request.cpus, memory |-> request.memory,
                      asset_grouping |-> request.asset_grouping,
                      failing |-> request.failing, result |-> ended.result,
                      allocations |-> ended.allocations,
                      obtained |-> ended.st.obtained, released |-> ended.st.released]

AllocateSingleNode(request) ==
    Allocate("allocate_single_node", request, allocate_single_node(pool, request))

AllocateFillNodes(request) ==
    Allocate("allocate_fill_nodes", request, allocate_fill_nodes(pool, request))

AllocateRoundRobin(request) ==
    Allocate("allocate_round_robin", request, allocate_round_robin(pool, request))

NextAllocator ==
    \/ \E request \in RequestChoices : AllocateSingleNode(request) /\ UNCHANGED notAllocator
    \/ \E request \in RequestChoices : AllocateFillNodes(request) /\ UNCHANGED notAllocator
    \/ \E request \in RequestChoices : AllocateRoundRobin(request) /\ UNCHANGED notAllocator

(* Properties of the allocation strategies *)

\* the CPU counts of the allocations of a list, summed
RECURSIVE CpusOf(_)
CpusOf(allocations) ==
    IF allocations = <<>> THEN 0 ELSE Head(allocations).cpu_count + CpusOf(Tail(allocations))

\* C39: whenever allocate_single_node, allocate_fill_nodes or allocate_round_robin
\* returns [None], every allocation the call obtained through allocate_resource has
\* been handed back through release_resources
C39_FailedRequestHoldsNothing ==
    alloc_call.result = "[None]" => alloc_call.obtained \subseteq alloc_call.released

\* a strategy returned [None] after allocate_resource had granted it an allocation
C39_Witness ==
    /\ alloc_call.result = "[None]"
    /\ alloc_call.obtained # {}
    /\ alloc_call.obtained = alloc_call.released

\* C40: for a request with cpus > 0 and memory > 0, for BUNDLE and for SILO and for
\* every set of nodes, the empty one included, each strategy returns a non-empty list
\* of allocations whose CPU counts sum to cpus, or [None]; it never ends with an
\* exception
C40_AllocationsOrNone ==
    (alloc_call.op # "none" /\ alloc_call.cpus > 0 /\ alloc_call.memory > 0)
        => \/ alloc_call.result = "[None]"
           \/ /\ alloc_call.result = "allocations"
              /\ alloc_call.allocations # <<>>
              /\ CpusOf(alloc_call.allocations) = alloc_call.cpus
----------------------------------------------------------------------------
(* The whole system and the specifications of its components *)

\* One construction of each component, for the specifications of the others
CommIdle == InitComm /\ maximum_size = 0 /\ verbosity = QUIET

RouterIdle == InitRouter /\ fail_on_missing_event = FALSE

ClockworkIdle == InitGroup /\ InitDuration /\ InitDate

HandlersIdle ==
    /\ signature_pair = [handler |-> <<>>, expected |-> <<>>]
    /\ compliance = NoCompliance
    /\ InitHandlers

ScoringIdle == InitScores /\ MetricIdle /\ ScaleIdle /\ SchemeIdle /\ RetryIdle /\ FaultsIdle /\ ReadersIdle /\ AllocatorIdle

Init ==
    /\ InitComm /\ InitRouter /\ InitDist /\ InitExpr /\ ClockworkIdle
    /\ InitSignature /\ InitHandlers
    /\ InitScores /\ InitMetric /\ InitScale /\ InitScheme /\ InitRetry /\ InitFaults /\ InitReaders /\ InitAllocator

Next ==
    \/ NextComm \/ NextRouter \/ NextDist \/ NextExpr \/ NextGroup \/ NextDuration
    \/ NextDate \/ NextSignature \/ NextHandlers
    \/ NextScores \/ NextMetric \/ NextScale \/ NextScheme \/ NextRetry \/ NextFaults \/ NextReaders \/ NextAllocator

Spec == Init /\ [][Next]_vars

\* The components do not share state: each is checked from its own initial
\* states, next to one construction of the others
InitForComm ==
    /\ InitComm /\ RouterIdle /\ InitDist /\ InitExpr /\ ClockworkIdle /\ HandlersIdle
    /\ ScoringIdle

InitForRouter ==
    /\ CommIdle /\ InitRouter /\ InitDist /\ InitExpr /\ ClockworkIdle /\ HandlersIdle
    /\ ScoringIdle

InitForDist ==
    /\ CommIdle /\ RouterIdle /\ InitDist /\ InitExpr /\ ClockworkIdle /\ HandlersIdle
    /\ ScoringIdle

InitForExpr ==
    /\ CommIdle /\ RouterIdle /\ InitDist /\ InitExpr /\ ClockworkIdle /\ HandlersIdle
    /\ ScoringIdle

InitForGroup ==
    /\ CommIdle /\ RouterIdle /\ InitDist /\ InitExpr /\ ClockworkIdle /\ HandlersIdle
    /\ ScoringIdle

InitForDuration ==
    /\ CommIdle /\ RouterIdle /\ InitDist /\ InitExpr /\ ClockworkIdle /\ HandlersIdle
    /\ ScoringIdle

InitForDate ==
    /\ CommIdle /\ RouterIdle /\ InitDist /\ InitExpr /\ ClockworkIdle /\ HandlersIdle
    /\ ScoringIdle

InitForSignature ==
    /\ CommIdle /\ RouterIdle /\ InitDist /\ InitExpr /\ ClockworkIdle
    /\ InitSignature /\ InitHandlers /\ ScoringIdle

InitForHandlers ==
    /\ CommIdle /\ RouterIdle /\ InitDist /\ InitExpr /\ ClockworkIdle /\ HandlersIdle
    /\ ScoringIdle

InitForScores ==
    /\ CommIdle /\ RouterIdle /\ InitDist /\ InitExpr /\ ClockworkIdle /\ HandlersIdle
    /\ InitScores /\ MetricIdle /\ ScaleIdle /\ SchemeIdle /\ RetryIdle /\ FaultsIdle /\ ReadersIdle /\ AllocatorIdle

InitForMetric ==
    /\ CommIdle /\ RouterIdle /\ InitDist /\ InitExpr /\ ClockworkIdle /\ HandlersIdle
    /\ InitScores /\ InitMetric /\ ScaleIdle /\ SchemeIdle /\ RetryIdle /\ FaultsIdle /\ ReadersIdle /\ AllocatorIdle

InitForScale ==
    /\ CommIdle /\ RouterIdle /\ InitDist /\ InitExpr /\ ClockworkIdle /\ HandlersIdle
    /\ InitScores /\ MetricIdle /\ InitScale /\ SchemeIdle /\ RetryIdle /\ FaultsIdle /\ ReadersIdle /\ AllocatorIdle

InitForScheme ==
    /\ CommIdle /\ RouterIdle /\ InitDist /\ InitExpr /\ ClockworkIdle /\ HandlersIdle
    /\ InitScores /\ MetricIdle /\ ScaleIdle /\ InitScheme /\ RetryIdle /\ FaultsIdle /\ ReadersIdle /\ AllocatorIdle

InitForRetry ==
    /\ CommIdle /\ RouterIdle /\ InitDist /\ InitExpr /\ ClockworkIdle /\ HandlersIdle
    /\ InitScores /\ MetricIdle /\ ScaleIdle /\ SchemeIdle /\ InitRetry /\ FaultsIdle /\ ReadersIdle /\ AllocatorIdle

InitForFaults ==
    /\ CommIdle /\ RouterIdle /\ InitDist /\ InitExpr /\ ClockworkIdle /\ HandlersIdle
    /\ InitScores /\ MetricIdle /\ ScaleIdle /\ SchemeIdle /\ RetryIdle /\ InitFaults /\ ReadersIdle /\ AllocatorIdle

InitForReaders ==
    /\ CommIdle /\ RouterIdle /\ InitDist /\ InitExpr /\ ClockworkIdle /\ HandlersIdle
    /\ InitScores /\ MetricIdle /\ ScaleIdle /\ SchemeIdle /\ RetryIdle /\ FaultsIdle /\ InitReaders /\ AllocatorIdle

InitForAllocator ==
    /\ CommIdle /\ RouterIdle /\ InitDist /\ InitExpr /\ ClockworkIdle /\ HandlersIdle
    /\ InitScores /\ MetricIdle /\ ScaleIdle /\ SchemeIdle /\ RetryIdle /\ FaultsIdle /\ ReadersIdle /\ InitAllocator

SpecComm == InitForComm /\ [][NextComm]_vars

SpecRouter == InitForRouter /\ [][NextRouter]_vars

SpecDist == InitForDist /\ [][NextDist]_vars

SpecExpr == InitForExpr /\ [][NextExpr]_vars

SpecGroup == InitForGroup /\ [][NextGroup]_vars

SpecDuration == InitForDuration /\ [][NextDuration]_vars

SpecDate == InitForDate /\ [][NextDate]_vars

SpecSignature == InitForSignature /\ [][NextSignature]_vars

SpecHandlers == InitForHandlers /\ [][NextHandlers]_vars

SpecScores == InitForScores /\ [][NextScores]_vars

SpecMetric == InitForMetric /\ [][NextMetric]_vars

SpecScale == InitForScale /\ [][NextScale]_vars

SpecScheme == InitForScheme /\ [][NextScheme]_vars

\* the calling thread keeps running: a statement it can execute is executed
SpecRetry == InitForRetry /\ [][NextRetry]_vars /\ WF_vars(CallSteps)

SpecFaults == InitForFaults /\ [][NextFaults]_vars

SpecReaders == InitForReaders /\ [][NextReaders]_vars

SpecAllocator == InitForAllocator /\ [][NextAllocator]_vars
====
